---- MODULE Spec2Model ----
(***************************************************************************)
(* tv_streamer: the persistent playback pipeline (PersistentPlayer), the   *)
(* video queue and the cyclic schedule, modelled as state machines.        *)
(*                                                                         *)
(* Specifications                                                          *)
(*   SchedSpec  - the schedule commands, one call at a time                *)
(*   QSeqSpec   - the queue commands, one call at a time                   *)
(*   QueueSpec  - the queue commands called concurrently, statement by     *)
(*                statement                                                *)
(*   CurSpec    - GetNextFromSchedule statement by statement, against the  *)
(*                other schedule commands                                  *)
(*   TxSpec     - BulkReorderSchedule's transaction, statement by          *)
(*                statement                                                *)
(*   RefSpec    - handleFileDelete against the commands that insert rows,  *)
(*                statement by statement, with the foreign keys            *)
(*   Spec       - the player: consumer loop, feeder, Skip, Stop, Start     *)
(*   FairSpec   - Spec with weak fairness on the goroutines' steps         *)
(*   SkipFairSpec - FairSpec with a smaller number of plays                *)
(*   LifeSpec   - Start and Stop called concurrently, statement by         *)
(*                statement, and the goroutines they launch                *)
(*   SinkSpec   - the now-playing notification, the log hook and the       *)
(*                WebSocket hub's broadcast channel                        *)
(*   SinkFairSpec - SinkSpec with weak fairness on the notifying           *)
(*                goroutine                                                *)
(*   WaitSpec   - the fair player on a catalog that starts empty           *)
(*   SoloSpec   - the fair player on a catalog of one file                 *)
(*   TargetSpec - the player with the item each Skip call saw recorded     *)
(*   DrawSpec   - getNextVideo and autoFillQueueFromLibrary statement by   *)
(*                statement, against AddToQueue and InjectAd               *)
(*                                                                         *)
(* The relational store is taken to be reliable: a statement either is not *)
(* issued or takes effect.                                                 *)
(***************************************************************************)
EXTENDS Integers, Sequences, FiniteSets, TLC

\* ------------------------------------------------------------------ bounds
MaxFiles == 2
MaxSched == 3
MaxNextLog == 4
MaxBulk == 2
MaxQueue == 4
MaxCallers == 2
MaxConcQueue == 3
MaxPlays == 7
MaxChunks == 1
MaxVanish == 1
MaxRefQueue == 2
MaxSkipPlays == 4
MaxStarts == 2
MaxBroadcast == 3
MaxDepth == 3
MaxNotify == 2

\* videoFeedChan: make(chan *VideoFeedRequest, 5)
FeedChanCap == 5

Files == 1..MaxFiles
\* one more file, on disk but never cataloged
AllFiles == 1..(MaxFiles + 1)
None == 0

VARIABLES
    catalog,        \* availible_files: the file ids known to the system
    disk,           \* the files that exist on disk
    schedule,       \* schedule rows [id, file, pos, cur]
    nextSid,        \* schedule autoincrement
    queue,          \* video_queue rows [id, file, played, pos, ad]
    nextQid,        \* video_queue autoincrement
    history,        \* play_history rows, by id: [file, qid, finished, skipped, updates]
    lastOp,         \* the last command that returned, with what it saw before
    nextLog,        \* ids returned by the GetNextFromSchedule calls since the last other command
    logFromStart,   \* whether nextLog began with no row marked current
    calls,          \* QueueSpec: the commands in progress, by caller
    running,        \* PersistentPlayer.running
    ffmpegRunning,  \* PersistentPlayer.ffmpegRunning: the subprocess has not exited
    stdinOpen,      \* PersistentPlayer.stdin is set and not closed
    stopClosed,     \* stopChan has been closed
    panicked,       \* the process died of a runtime panic
    currentFile,    \* PersistentPlayer.currentFile (a queue id, or None)
    currentHistory, \* PersistentPlayer.currentHistory (a history id, or None)
    pc,             \* videoPlayer: off, loop, get, send, wait, fail, exited
    video,          \* videoPlayer: the queue row it took
    err,            \* videoPlayer: the error playVideo returned
    feedChan,       \* videoFeedChan: the requests sent and not yet received
    feederPc,       \* videoFeeder: off, idle, loop, write, flush, exited
    feeding,        \* videoFeeder: the request whose file it is feeding
    chunksLeft,     \* feedVideoToFFmpeg: chunks of the file not yet read
    ctxDone,        \* feedVideoToFFmpeg: the 5-minute context has expired
    stalled,        \* the subprocess has stopped reading its stdin
    done,           \* feedReq.Done of the request playVideo waits on: none, ok, err, timeout
    skipPc,         \* Skip: idle, or send (blocked sending on skipChan)
    procAlive,      \* the subprocess started by the latest Start has not exited
    stale,          \* the feeder writes to the pipe of an earlier Start
    tasks,          \* LifeSpec: the goroutines Start has launched, by where they are
    hub             \* SinkSpec: the broadcaster, the hub's broadcast channel, the callers in it

storeVars == <<catalog, disk, schedule, nextSid, queue, nextQid, history>>
ghostVars == <<lastOp, nextLog, logFromStart>>
playerVars == <<running, ffmpegRunning, stdinOpen, stopClosed, panicked, currentFile,
                currentHistory, pc, video, err, feedChan, feederPc, feeding, chunksLeft,
                ctxDone, stalled, done, skipPc, procAlive, stale, tasks, hub>>

\* ---------------------------------------------------------------- schedule
SchedIds(S) == {x.id : x \in S}

CurrentItems(S) == {x \in S : x.cur}

\* ORDER BY schedule_position ASC, first row: every row of lowest position may be it
LowestOf(T) == {x \in T : \A y \in T : x.pos <= y.pos}

ItemsAfterGE(S, c) == {x \in S : x.pos >= c.pos}

\* WHERE schedule_position > current.SchedulePosition
ItemsAfter(S, c) == {x \in S : x.pos > c.pos}

UnmarkNone(S) == S

\* UPDATE schedule SET is_current = 0 WHERE is_current = 1
UnmarkCurrent(S) == {[x EXCEPT !.cur = FALSE] : x \in S}

\* nextItem.MarkAsCurrent(); UPDATE ... WHERE id = nextItem.ID
MarkCurrent(S, n) == {[x EXCEPT !.cur = (x.cur \/ x.id = n.id)] : x \in S}

\* GetNextFromSchedule: the possible results [sched, item] (item = None: no row)
NextOutcomes(S) ==
    IF CurrentItems(S) # {}
    THEN UNION { LET after == ItemsAfter(S, c)
                     pick  == IF after # {} THEN LowestOf(after) ELSE LowestOf(S)
                 IN  {[sched |-> MarkCurrent(UnmarkCurrent(S), n), item |-> n.id] : n \in pick}
               : c \in CurrentItems(S) }
    ELSE IF S = {}
         THEN {[sched |-> S, item |-> None]}
         ELSE {[sched |-> MarkCurrent(S, n), item |-> n.id] : n \in LowestOf(S)}

\* SELECT COALESCE(MAX(schedule_position), -1) FROM schedule
MaxSchedPos(S) == IF S = {} THEN -1 ELSE CHOOSE m \in {x.pos : x \in S} : \A y \in S : y.pos <= m

\* positions are exactly 0 .. n-1, each once
Dense(S) == /\ \A x \in S : x.pos \in 0..(Cardinality(S) - 1)
            /\ \A x, y \in S : x.pos = y.pos => x.id = y.id

DistinctPositions(S) == \A x, y \in S : x.pos = y.pos => x.id = y.id

\* AddToSchedule: the row inserted at max+1 for a cataloged file present on disk
AddToScheduleOp(S, sid, f) ==
    S \cup {[id |-> sid, file |-> f, pos |-> MaxSchedPos(S) + 1, cur |-> FALSE]}

\* RemoveFromScheduleByID: delete, then decrement every position above the deleted one
RemoveByIDOp(S, sid) ==
    LET item == CHOOSE x \in S : x.id = sid
        rest == S \ {item}
    IN  {[x EXCEPT !.pos = IF x.pos > item.pos THEN x.pos - 1 ELSE x.pos] : x \in rest}

ClampNoop(newPosition, totalCount) == newPosition

\* newPosition >= totalCount: newPosition = totalCount - 1
Clamp(newPosition, totalCount) ==
    IF newPosition >= totalCount THEN totalCount - 1 ELSE newPosition

\* UpdateSchedulePosition, after its checks: shift the rows between, then place the row
UpdatePositionOp(S, sid, newPosition) ==
    LET item == CHOOSE x \in S : x.id = sid
        old  == item.pos
        new  == Clamp(newPosition, Cardinality(S))
        shifted == IF new < old
                   THEN {[x EXCEPT !.pos = IF x.pos >= new /\ x.pos < old
                                           THEN x.pos + 1 ELSE x.pos] : x \in S}
                   ELSE {[x EXCEPT !.pos = IF x.pos > old /\ x.pos <= new
                                           THEN x.pos - 1 ELSE x.pos] : x \in S}
    IN  {[x EXCEPT !.pos = IF x.id = sid THEN new ELSE x.pos] : x \in shifted}

\* BulkReorderSchedule, committed: every id of the map gets the map's position
BulkReorderOp(S, orderMap) ==
    {[x EXCEPT !.pos = IF x.id \in DOMAIN orderMap THEN orderMap[x.id] ELSE x.pos] : x \in S}


\* ------------------------------------------------------------------- queue
QueueIds(Q) == {x.id : x \in Q}

Pending(Q) == {x \in Q : ~x.played}

\* SELECT COALESCE(MAX(queue_position), 0) FROM video_queue
MaxQueuePos(Q) == IF Q = {} THEN 0 ELSE CHOOSE m \in {x.pos : x \in Q} : \A y \in Q : y.pos <= m

InsertQueue(Q, qid, f, pos, ad) ==
    Q \cup {[id |-> qid, file |-> f, played |-> FALSE, pos |-> pos, ad |-> ad]}

ShiftNone(Q) == Q

\* UPDATE video_queue SET queue_position = queue_position + 1 WHERE played = 0
ShiftPending(Q) == {[x EXCEPT !.pos = IF x.played THEN x.pos ELSE x.pos + 1] : x \in Q}

\* getNextVideo: WHERE played = 0 ORDER BY queue_position ASC, id ASC, first row
NextPending(Q) ==
    IF Pending(Q) = {} THEN None
    ELSE (CHOOSE x \in Pending(Q) :
            \A y \in Pending(Q) : x.pos < y.pos \/ (x.pos = y.pos /\ x.id <= y.id)).id

\* a mark whose UPDATE is lost
MarkAsPlayedLost(Q, qid) == Q

\* video.MarkAsPlayed(); UPDATE ... WHERE id = video.ID
MarkAsPlayed(Q, qid) == {[x EXCEPT !.played = (x.played \/ x.id = qid)] : x \in Q}

\* a clear that deletes every row
ClearQueueOp(Q) == {}

\* ClearPlayedFromQueue: the number of rows its DELETE affected, which it returns
ClearPlayedCount(Q) == Cardinality({x \in Q : x.played})

\* ClearPlayedFromQueue: DELETE FROM video_queue WHERE played = 1
ClearPlayedOp(Q) == {x \in Q : ~x.played}

\* the pending rows in the order getNextVideo would take them
RECURSIVE PendingOrder(_)
PendingOrder(Q) ==
    IF Pending(Q) = {} THEN <<>>
    ELSE LET h == NextPending(Q)
         IN  <<h>> \o PendingOrder({x \in Q : x.id # h})

\* AddToQueue, after its checks: a row at max+1
AddToQueueOp(Q, qid, f, isAd) == InsertQueue(Q, qid, f, MaxQueuePos(Q) + 1, isAd)

\* InjectAd, after its checks: shift the pending rows, insert the ad at 0
InjectAdOp(Q, qid, f) == InsertQueue(ShiftPending(Q), qid, f, 0, TRUE)

\* the file is on disk (os.Stat) and in availible_files
Cataloged(f) == f \in disk /\ f \in catalog

\* ------------------------------------------------------------- auto-fill
\* the index i of a file in the availible_files listing
CatalogRank(cat, f) == Cardinality({g \in cat : g < f})

\* a population that leaves out the os.Stat of the listed files
PopulateUnverified(S, sid0, cat, dsk) ==
    S \cup {[id   |-> sid0 + Cardinality({g \in cat : g < f}),
             file |-> f,
             pos  |-> CatalogRank(cat, f),
             cur  |-> FALSE] : f \in cat}

\* autoFillQueueFromLibrary, schedule empty: a row at SchedulePosition i for every
\* listed file that is still on disk; the ids are handed out in insertion order
PopulateSchedule(S, sid0, cat, dsk) ==
    S \cup {[id   |-> sid0 + Cardinality({g \in cat \cap dsk : g < f}),
             file |-> f,
             pos  |-> CatalogRank(cat, f),
             cur  |-> FALSE] : f \in cat \cap dsk}

SchedFile(S, sid) == (CHOOSE x \in S : x.id = sid).file

\* autoFillQueueFromLibrary up to the queue insert: the possible
\* [sched, nextSid, file]; file = None when it returns an error
AutoFillOutcomes(S, sid0, cat, dsk) ==
    UNION { IF r.item # None
            THEN {[sched |-> r.sched, nextSid |-> sid0,
                   file |-> IF SchedFile(S, r.item) \in dsk THEN SchedFile(S, r.item) ELSE None]}
            ELSE IF cat \cap dsk = {}
                 THEN {[sched |-> S, nextSid |-> sid0, file |-> None]}
                 ELSE LET P == PopulateSchedule(S, sid0, cat, dsk)
                      IN  {[sched |-> r2.sched,
                            nextSid |-> sid0 + Cardinality(cat \cap dsk),
                            file |-> SchedFile(P, r2.item)] : r2 \in NextOutcomes(P)}
          : r \in NextOutcomes(S) }

NoCall == [c \in {} |-> 0]

\* no videoPlayer and no videoFeeder goroutine; launched counts the Starts that
\* reached their go statements
NoTasks == [loopSelect |-> 0, loopBusy |-> 0, feedSelect |-> 0, feedBusy |-> 0, launched |-> 0]

\* no broadcaster set, GetWebSocketHub's empty broadcast channel, nobody in a
\* call: notify and depth are the consumer loop's place in its notification and
\* the log calls it has open, run and runDepth the same for the hub's goroutine
NoHub == [broadcaster |-> FALSE, broadcast |-> 0, notify |-> "idle", depth |-> 0,
          notified |-> 0, run |-> "select", runDepth |-> 0]

\* GetPersistentPlayer: the player as constructed, before Start
PlayerInit ==
    /\ running = FALSE
    /\ ffmpegRunning = FALSE
    /\ stdinOpen = FALSE
    /\ stopClosed = FALSE
    /\ panicked = FALSE
    /\ currentFile = None
    /\ currentHistory = None
    /\ pc = "off"
    /\ video = None
    /\ err = "none"
    /\ feedChan = <<>>
    /\ feederPc = "off"
    /\ feeding = None
    /\ chunksLeft = 0
    /\ ctxDone = FALSE
    /\ stalled = FALSE
    /\ done = "none"
    /\ skipPc = "idle"
    /\ procAlive = FALSE
    /\ stale = FALSE
    /\ tasks = NoTasks
    /\ hub = NoHub

QInit ==
    /\ queue = {}
    /\ nextQid = 1
    /\ history = <<>>
    /\ calls = NoCall

SchedInit ==
    /\ catalog = Files
    /\ disk = AllFiles
    /\ schedule = {}
    /\ nextSid = 1
    /\ QInit
    /\ PlayerInit
    /\ lastOp = [op |-> "init", dense |-> TRUE, ok |-> TRUE]
    /\ nextLog = <<>>
    /\ logFromStart = TRUE

NotSched == UNCHANGED <<catalog, disk, queue, nextQid, history, calls, playerVars>>

\* a command other than next() returned: the log of next() results starts over
Returned(op, ok) ==
    /\ lastOp' = [op |-> op, dense |-> Dense(schedule), ok |-> ok]
    /\ nextLog' = <<>>
    /\ logFromStart' = (CurrentItems(schedule') = {})

SAddToSchedule(f) ==
    /\ nextSid <= MaxSched
    /\ IF f \in disk /\ f \in catalog
       THEN /\ schedule' = AddToScheduleOp(schedule, nextSid, f)
            /\ nextSid' = nextSid + 1
            /\ Returned("add", TRUE)
       ELSE /\ UNCHANGED <<schedule, nextSid>>
            /\ Returned("add", FALSE)
    /\ NotSched

SGetNextFromSchedule ==
    /\ Len(nextLog) < MaxNextLog
    /\ \E r \in NextOutcomes(schedule) :
        /\ schedule' = r.sched
        /\ nextLog' = IF r.item = None THEN nextLog ELSE Append(nextLog, r.item)
    /\ lastOp' = [op |-> "next", dense |-> Dense(schedule), ok |-> TRUE]
    /\ UNCHANGED <<nextSid, logFromStart>>
    /\ NotSched

SResetSchedulePosition ==
    /\ schedule' = {[x EXCEPT !.cur = FALSE] : x \in schedule}
    /\ Returned("reset", TRUE)
    /\ UNCHANGED nextSid
    /\ NotSched

SRemoveFromSchedule(f) ==
    /\ schedule' = {x \in schedule : x.file # f}
    /\ Returned("remove", \E x \in schedule : x.file = f)
    /\ UNCHANGED nextSid
    /\ NotSched

SRemoveFromScheduleByID(sid) ==
    /\ IF sid \in SchedIds(schedule)
       THEN /\ schedule' = RemoveByIDOp(schedule, sid)
            /\ Returned("remove_by_id", TRUE)
       ELSE /\ UNCHANGED schedule
            /\ Returned("remove_by_id", FALSE)
    /\ UNCHANGED nextSid
    /\ NotSched

PosOf(S, sid) == (CHOOSE x \in S : x.id = sid).pos

\* what a reorder call that returned nil did, told from the rows before and after:
\* the item is at the requested position brought into 0..count-1, the rows
\* between the old and the new position moved one step towards the old one, the
\* rest stayed, and the other rows are in the order they were in
Moved(S, T, sid, newPosition) ==
    LET old == PosOf(S, sid)
        top == Cardinality(S) - 1
        new == IF newPosition > top THEN top ELSE newPosition
        step(x) == IF new < old /\ x.pos >= new /\ x.pos < old THEN 1
                   ELSE IF new > old /\ x.pos > old /\ x.pos <= new THEN -1
                   ELSE 0
    IN  /\ SchedIds(T) = SchedIds(S)
        /\ PosOf(T, sid) = new
        /\ \A x \in S : x.id # sid => PosOf(T, x.id) = x.pos + step(x)
        /\ \A x, y \in S : (x.id # sid /\ y.id # sid /\ x.pos < y.pos)
                                => PosOf(T, x.id) < PosOf(T, y.id)

ReorderReturned(ok, sid, newPosition) ==
    /\ lastOp' = [op |-> "reorder", dense |-> Dense(schedule), ok |-> ok,
                  moved |-> ok /\ Moved(schedule, schedule', sid, newPosition)]
    /\ nextLog' = <<>>
    /\ logFromStart' = (CurrentItems(schedule') = {})

SUpdateSchedulePosition(sid, newPosition) ==
    /\ IF newPosition < 0 \/ sid \notin SchedIds(schedule)
       THEN /\ UNCHANGED schedule
            /\ ReorderReturned(FALSE, sid, newPosition)
       ELSE IF (CHOOSE x \in schedule : x.id = sid).pos = newPosition
            THEN /\ UNCHANGED schedule
                 /\ ReorderReturned(TRUE, sid, newPosition)
            ELSE /\ schedule' = UpdatePositionOp(schedule, sid, newPosition)
                 /\ ReorderReturned(TRUE, sid, newPosition)
    /\ UNCHANGED nextSid
    /\ NotSched

OrderMaps ==
    UNION {[ids -> -1..(MaxSched - 1)] :
              ids \in {s \in SUBSET (1..MaxSched) : Cardinality(s) <= MaxBulk}}

SBulkReorderSchedule(orderMap) ==
    /\ IF \/ DOMAIN orderMap = {}
          \/ ~(DOMAIN orderMap \subseteq SchedIds(schedule))
          \/ \E i \in DOMAIN orderMap : orderMap[i] < 0
       THEN /\ UNCHANGED schedule
            /\ Returned("bulk_reorder", FALSE)
       ELSE /\ schedule' = BulkReorderOp(schedule, orderMap)
            /\ Returned("bulk_reorder", TRUE)
    /\ UNCHANGED nextSid
    /\ NotSched

SchedNext ==
    \/ \E f \in AllFiles : SAddToSchedule(f)
    \/ SGetNextFromSchedule
    \/ SResetSchedulePosition
    \/ \E f \in Files : SRemoveFromSchedule(f)
    \/ \E sid \in 1..MaxSched : SRemoveFromScheduleByID(sid)
    \/ \E sid \in 1..MaxSched, p \in -1..MaxSched : SUpdateSchedulePosition(sid, p)
    \/ \E m \in OrderMaps : SBulkReorderSchedule(m)

vars == <<catalog, disk, schedule, nextSid, queue, nextQid, history,
          lastOp, nextLog, logFromStart, calls, playerVars>>

SchedSpec == SchedInit /\ [][SchedNext]_vars

\* the id of the row with exactly k-1 rows of lower position
IdAtRank(S, k) ==
    (CHOOSE x \in S : Cardinality({y \in S : y.pos < x.pos}) = k - 1).id


\* C7 (cyclic schedule): starting with no row marked current, on a schedule of
\* distinct positions, the i-th of successive next() calls returns the row of rank
\* ((i-1) mod n) + 1 in ascending position order: ascending, then wrapping from the
\* highest position to the lowest; on positions [0,1,2] four calls give [0,1,2,0].
C7_CyclicNext ==
    (logFromStart /\ DistinctPositions(schedule)) =>
        \A i \in 1..Len(nextLog) :
            nextLog[i] = IdAtRank(schedule, ((i - 1) % Cardinality(schedule)) + 1)

C7_Witness ==
    /\ logFromStart
    /\ Cardinality(schedule) = 3
    /\ {x.pos : x \in schedule} = {0, 1, 2}
    /\ Len(nextLog) = 4
    /\ [i \in 1..4 |-> PosOf(schedule, nextLog[i])] = <<0, 1, 2, 0>>

\* C10 (reorder density): after a reorder, remove_by_id or bulk_reorder call on a
\* schedule whose positions were dense, the positions of the remaining n rows are
\* exactly 0..n-1, without gap or duplicate.
C10_ReorderDensity ==
    (lastOp.op \in {"reorder", "remove_by_id", "bulk_reorder"} /\ lastOp.dense)
        => Dense(schedule)


\* C11 (contiguous positions): a schedule whose positions are 0..n-1 still has
\* positions 0..n-1 after add and after remove(catalog_id).
C11_ContiguousPositions ==
    (lastOp.op \in {"add", "remove"} /\ lastOp.dense) => Dense(schedule)

\* C13 (reorder): a reorder call that succeeds puts the item at new_position
\* clamped to [0, count-1], moves exactly the rows between the old and the new
\* position by one, and keeps the order of the rest.
C13_ReorderPlacement ==
    (lastOp.op = "reorder" /\ lastOp.ok) => lastOp.moved

\* the same for the calls made on a schedule whose positions are 0..count-1
C13_OnContiguous ==
    (lastOp.op = "reorder" /\ lastOp.ok /\ lastOp.dense) => lastOp.moved

\* ------------------------------------ GetNextFromSchedule, by statement
\* the consumer loop is the only caller of GetNextFromSchedule; the schedule
\* commands run between its statements
NoNext == [op |-> "idle"]

CurInit ==
    /\ catalog = Files
    /\ disk = AllFiles
    /\ schedule = {}
    /\ nextSid = 1
    /\ queue = {}
    /\ nextQid = 1
    /\ history = <<>>
    /\ PlayerInit
    /\ calls = NoNext
    /\ lastOp = [op |-> "init", dense |-> TRUE, ok |-> TRUE]
    /\ nextLog = <<>>
    /\ logFromStart = TRUE

NotCur ==
    UNCHANGED <<catalog, disk, nextSid, queue, nextQid, history, nextLog, logFromStart,
                playerVars>>

\* the two reads: the current row, then the row after it or the first row
NRead ==
    /\ calls.op = "idle"
    /\ schedule # {}
    /\ \E r \in NextOutcomes(schedule) :
        calls' = [op |-> "next", target |-> r.item, unmark |-> CurrentItems(schedule) # {}]
    /\ UNCHANGED <<schedule, lastOp>>
    /\ NotCur

\* UPDATE ... SET is_current = 0 WHERE is_current = 1
NUnmark ==
    /\ calls.op = "next" /\ calls.unmark
    /\ schedule' = UnmarkCurrent(schedule)
    /\ calls' = [calls EXCEPT !.unmark = FALSE]
    /\ UNCHANGED lastOp
    /\ NotCur

\* UPDATE ... SET is_current = 1 WHERE id = nextItem.ID
NMark ==
    /\ calls.op = "next" /\ ~calls.unmark
    /\ schedule' = MarkCurrent(schedule, [id |-> calls.target])
    /\ lastOp' = [op |-> "next", dense |-> Dense(schedule), ok |-> TRUE]
    /\ calls' = NoNext
    /\ NotCur

\* the reorder maps of one entry
SingleMaps == {m \in OrderMaps : Cardinality(DOMAIN m) = 1}

CurNext ==
    \/ NRead
    \/ NUnmark
    \/ NMark
    \/ \E f \in Files : SAddToSchedule(f)
    \/ SResetSchedulePosition
    \/ \E f \in Files : SRemoveFromSchedule(f)
    \/ \E sid \in 1..MaxSched : SRemoveFromScheduleByID(sid)
    \/ \E sid \in 1..MaxSched, p \in 0..MaxSched : SUpdateSchedulePosition(sid, p)
    \/ \E m \in SingleMaps : SBulkReorderSchedule(m)

CurSpec == CurInit /\ [][CurNext]_vars

\* C14 (one current item): at most one schedule row has is_current set, whatever
\* commands run between the statements of next().
C14_AtMostOneCurrent == Cardinality(CurrentItems(schedule)) <= 1

\* a reset ran between the reads and the writes of next(), then next() marked
C14_Witness ==
    /\ calls.op = "next" /\ calls.unmark
    /\ lastOp.op = "reset"
    /\ CurrentItems(schedule) = {}
    /\ Cardinality(schedule) = 3

\* ------------------------------------ BulkReorderSchedule, by statement
\* the session's transaction: the rows as the session sees them (work), the ids
\* still to update (todo); schedule is what every other connection reads
NoTx == [op |-> "idle"]

RollbackKeeps(committed, work) == work

\* session.Rollback(): the rows stay as they were committed
Rollback(committed, work) == committed

\* session.Commit(): the session's rows become the committed rows
Commit(committed, work) == work

\* session.ID(scheduleID).Cols("schedule_position").Update(...)
SetPosition(S, sid, newPosition) ==
    {[x EXCEPT !.pos = IF x.id = sid THEN newPosition ELSE x.pos] : x \in S}

TxInit ==
    /\ catalog = Files
    /\ disk = AllFiles
    /\ schedule = {}
    /\ nextSid = 1
    /\ queue = {}
    /\ nextQid = 1
    /\ history = <<>>
    /\ PlayerInit
    /\ calls = NoTx
    /\ lastOp = [op |-> "init", ok |-> TRUE]
    /\ nextLog = <<>>
    /\ logFromStart = TRUE

NotTx ==
    UNCHANGED <<catalog, disk, queue, nextQid, history, nextLog, logFromStart, playerVars>>

\* what the caller and the other readers can tell when the call returns: did
\* any position change, is the whole map applied, had the session updated rows
BulkReturned(ok, partial) ==
    lastOp' = [op |-> "bulk_reorder", ok |-> ok, partial |-> partial,
               unchanged |-> (schedule' = calls.before),
               applied |-> (schedule' = BulkReorderOp(calls.before, calls.map)),
               size |-> Cardinality(DOMAIN calls.map)]

\* the call returned an error: rollback
TxFails ==
    /\ schedule' = Rollback(schedule, calls.work)
    /\ BulkReturned(FALSE, calls.work # calls.before)
    /\ calls' = NoTx

TAddToSchedule(f) ==
    /\ calls.op = "idle"
    /\ nextSid <= MaxSched
    /\ Cataloged(f)
    /\ schedule' = AddToScheduleOp(schedule, nextSid, f)
    /\ nextSid' = nextSid + 1
    /\ lastOp' = [op |-> "add", ok |-> TRUE]
    /\ UNCHANGED calls
    /\ NotTx

TRemoveFromSchedule(f) ==
    /\ calls.op = "idle"
    /\ schedule' = {x \in schedule : x.file # f}
    /\ lastOp' = [op |-> "remove", ok |-> TRUE]
    /\ UNCHANGED <<calls, nextSid>>
    /\ NotTx

\* BulkReorderSchedule up to its first update: the empty-map check, Begin, and
\* the loop that looks every id up
TBegin(orderMap) ==
    /\ calls.op = "idle"
    /\ IF DOMAIN orderMap = {}
       THEN /\ lastOp' = [op |-> "bulk_reorder", ok |-> FALSE, partial |-> FALSE,
                          unchanged |-> TRUE, applied |-> FALSE,
                          size |-> Cardinality(DOMAIN orderMap)]
            /\ UNCHANGED calls
       ELSE IF ~(DOMAIN orderMap \subseteq SchedIds(schedule))
       THEN /\ lastOp' = [op |-> "bulk_reorder", ok |-> FALSE, partial |-> FALSE,
                          unchanged |-> TRUE, applied |-> FALSE,
                          size |-> Cardinality(DOMAIN orderMap)]
            /\ UNCHANGED calls
       ELSE /\ calls' = [op |-> "tx", map |-> orderMap, todo |-> DOMAIN orderMap,
                         work |-> schedule, before |-> schedule]
            /\ UNCHANGED lastOp
    /\ UNCHANGED <<schedule, nextSid>>
    /\ NotTx

\* one turn of the update loop, the map's ids in any order: a negative position
\* ends the call, else the row is updated in the session
TUpdate(sid) ==
    /\ calls.op = "tx"
    /\ sid \in calls.todo
    /\ IF calls.map[sid] < 0
       THEN TxFails
       ELSE /\ calls' = [calls EXCEPT !.todo = @ \ {sid},
                                      !.work = SetPosition(@, sid, calls.map[sid])]
            /\ UNCHANGED <<schedule, lastOp>>
    /\ UNCHANGED nextSid
    /\ NotTx

\* an UPDATE or the COMMIT returns an error
TUpdateFails ==
    /\ calls.op = "tx"
    /\ TxFails
    /\ UNCHANGED nextSid
    /\ NotTx

TCommit ==
    /\ calls.op = "tx"
    /\ calls.todo = {}
    /\ schedule' = Commit(schedule, calls.work)
    /\ BulkReturned(TRUE, FALSE)
    /\ calls' = NoTx
    /\ UNCHANGED nextSid
    /\ NotTx

TxNext ==
    \/ \E f \in Files : TAddToSchedule(f)
    \/ \E f \in Files : TRemoveFromSchedule(f)
    \/ \E m \in OrderMaps : TBegin(m)
    \/ \E sid \in 1..MaxSched : TUpdate(sid)
    \/ TUpdateFails
    \/ TCommit

TxSpec == TxInit /\ [][TxNext]_vars

\* C12 (bulk_reorder all-or-nothing): while the call runs every other reader
\* sees the rows as they were before it; updates are applied only when every
\* id of the map exists; a call that returns an error leaves every position as
\* it was, and a call that succeeds has applied the whole map.
C12_BulkAllOrNothing ==
    /\ calls.op = "tx" =>
            /\ schedule = calls.before
            /\ DOMAIN calls.map \subseteq SchedIds(calls.before)
    /\ (lastOp.op = "bulk_reorder" /\ ~lastOp.ok) => lastOp.unchanged
    /\ (lastOp.op = "bulk_reorder" /\ lastOp.ok) => lastOp.applied

C12_Witness ==
    /\ lastOp.op = "bulk_reorder" /\ ~lastOp.ok
    /\ lastOp.partial
    /\ lastOp.unchanged
    /\ lastOp.size = 2

\* ------------------------------------------- the queue commands, one at a time
QSeqInit ==
    /\ catalog = Files
    /\ disk = AllFiles
    /\ schedule = {}
    /\ nextSid = 1
    /\ QInit
    /\ PlayerInit
    /\ lastOp = [op |-> "init", ok |-> TRUE, qid |-> None, before |-> <<>>]
    /\ nextLog = <<>>
    /\ logFromStart = TRUE

NotQueue ==
    UNCHANGED <<catalog, disk, schedule, nextSid, history, nextLog, logFromStart, calls,
                playerVars>>

QReturned(op, ok, qid) ==
    lastOp' = [op |-> op, ok |-> ok, qid |-> qid, before |-> PendingOrder(queue)]

QAddToQueue(f, isAd) ==
    /\ nextQid <= MaxQueue
    /\ IF Cataloged(f)
       THEN /\ queue' = AddToQueueOp(queue, nextQid, f, isAd)
            /\ nextQid' = nextQid + 1
            /\ QReturned("enqueue", TRUE, nextQid)
       ELSE /\ UNCHANGED <<queue, nextQid>>
            /\ QReturned("enqueue", FALSE, None)
    /\ NotQueue

QInjectAd(f) ==
    /\ nextQid <= MaxQueue
    /\ IF Cataloged(f)
       THEN /\ queue' = InjectAdOp(queue, nextQid, f)
            /\ nextQid' = nextQid + 1
            /\ QReturned("inject", TRUE, nextQid)
       ELSE /\ UNCHANGED <<queue, nextQid>>
            /\ QReturned("inject", FALSE, None)
    /\ NotQueue

\* the consumer loop takes the next pending row and marks it played
QPlayNext ==
    /\ NextPending(queue) # None
    /\ queue' = MarkAsPlayed(queue, NextPending(queue))
    /\ QReturned("play", TRUE, NextPending(queue))
    /\ UNCHANGED nextQid
    /\ NotQueue

QClearPlayed ==
    /\ queue' = ClearPlayedOp(queue)
    /\ QReturned("clear_played", TRUE, None)
    /\ UNCHANGED nextQid
    /\ NotQueue

QSeqNext ==
    \/ \E f \in AllFiles, isAd \in BOOLEAN : QAddToQueue(f, isAd)
    \/ \E f \in AllFiles : QInjectAd(f)
    \/ QPlayNext
    \/ QClearPlayed

QSeqSpec == QSeqInit /\ [][QSeqNext]_vars

RowOf(Q, qid) == CHOOSE x \in Q : x.id = qid

\* C8 (ad priority): an injected ad is at position 0 and is taken before every row
\* that was pending when it was injected, whose relative order is unchanged; two
\* regular rows enqueued and then one ad injected give the order [ad, item1, item2].
C8_AdPriority ==
    (lastOp.op = "inject" /\ lastOp.ok) =>
        /\ RowOf(queue, lastOp.qid).pos = 0
        /\ RowOf(queue, lastOp.qid).ad
        /\ PendingOrder(queue) = <<lastOp.qid>> \o lastOp.before

C8_Witness ==
    /\ lastOp.op = "inject" /\ lastOp.ok
    /\ QueueIds(queue) = {1, 2, 3}
    /\ ~RowOf(queue, 1).ad /\ ~RowOf(queue, 2).ad /\ RowOf(queue, 3).ad
    /\ lastOp.before = <<1, 2>>
    /\ PendingOrder(queue) = <<3, 1, 2>>
    /\ RowOf(queue, 3).pos = 0

\* C15 (enqueue positions): a successful enqueue with is_ad = false puts the row
\* at max(position)+1; with is_ad = true it puts the row at position 0, ahead
\* of every row that was pending.
C15_EnqueuePosition ==
    (lastOp.op = "enqueue" /\ lastOp.ok) =>
        LET r == RowOf(queue, lastOp.qid)
        IN  IF r.ad
            THEN r.pos = 0 /\ PendingOrder(queue) = <<r.id>> \o lastOp.before
            ELSE r.pos = MaxQueuePos(queue \ {r}) + 1

\* ------------------------------- the queue commands, concurrent, by statement
\* caller 0 is the consumer loop (auto-fill); 1..MaxCallers are command handlers
Callers == 0..MaxCallers
IdleCall == [op |-> "idle", file |-> None, pos |-> 0, ad |-> FALSE]

\* a call is begun only if the rows it and the calls in progress insert fit the bound
Room == nextQid + Cardinality({c \in Callers : calls[c].op # "idle"}) <= MaxConcQueue

QueueInit ==
    /\ catalog = Files
    /\ disk = AllFiles
    /\ schedule = {}
    /\ nextSid = 1
    /\ queue = {}
    /\ nextQid = 1
    /\ history = <<>>
    /\ calls = [c \in Callers |-> IdleCall]
    /\ PlayerInit
    /\ lastOp = [op |-> "init", ok |-> TRUE]
    /\ nextLog = <<>>
    /\ logFromStart = TRUE

NotConc == UNCHANGED <<catalog, disk, history, nextLog, logFromStart, playerVars>>

\* AddToQueue up to the position it computed: the checks, then SELECT MAX
CAddRead(c, f, isAd) ==
    /\ c # 0 /\ calls[c].op = "idle"
    /\ Room
    /\ IF Cataloged(f)
       THEN /\ calls' = [calls EXCEPT ![c] = [op |-> "add", file |-> f,
                                              pos |-> MaxQueuePos(queue) + 1, ad |-> isAd]]
            /\ UNCHANGED lastOp
       ELSE /\ lastOp' = [op |-> "enqueue", ok |-> FALSE]
            /\ UNCHANGED calls
    /\ UNCHANGED <<queue, nextQid, schedule, nextSid>>
    /\ NotConc

\* InjectAd up to its insert: the checks, then the shifting UPDATE
CInjectShift(c, f) ==
    /\ c # 0 /\ calls[c].op = "idle"
    /\ Room
    /\ IF Cataloged(f)
       THEN /\ queue' = ShiftPending(queue)
            /\ calls' = [calls EXCEPT ![c] = [op |-> "inject", file |-> f, pos |-> 0, ad |-> TRUE]]
            /\ UNCHANGED lastOp
       ELSE /\ lastOp' = [op |-> "inject", ok |-> FALSE]
            /\ UNCHANGED <<queue, calls>>
    /\ UNCHANGED <<nextQid, schedule, nextSid>>
    /\ NotConc

\* the consumer loop found no pending row: autoFillQueueFromLibrary up to SELECT MAX
CAutoFillRead ==
    /\ calls[0].op = "idle"
    /\ Room
    /\ NextPending(queue) = None
    /\ \E r \in AutoFillOutcomes(schedule, nextSid, catalog, disk) :
        /\ schedule' = r.sched
        /\ nextSid' = r.nextSid
        /\ IF r.file # None
           THEN /\ calls' = [calls EXCEPT ![0] = [op |-> "autofill", file |-> r.file,
                                                  pos |-> MaxQueuePos(queue) + 1, ad |-> FALSE]]
                /\ UNCHANGED lastOp
           ELSE /\ lastOp' = [op |-> "autofill", ok |-> FALSE]
                /\ UNCHANGED calls
    /\ UNCHANGED <<queue, nextQid>>
    /\ NotConc

\* the INSERT of AddToQueue, InjectAd or autoFillQueueFromLibrary
CInsert(c) ==
    /\ calls[c].op # "idle"
    /\ queue' = InsertQueue(queue, nextQid, calls[c].file, calls[c].pos, calls[c].ad)
    /\ nextQid' = nextQid + 1
    /\ calls' = [calls EXCEPT ![c] = IdleCall]
    /\ lastOp' = [op |-> calls[c].op, ok |-> TRUE]
    /\ UNCHANGED <<schedule, nextSid>>
    /\ NotConc

\* the consumer loop takes the next pending row and marks it played
CPlayNext ==
    /\ calls[0].op = "idle"
    /\ NextPending(queue) # None
    /\ queue' = MarkAsPlayed(queue, NextPending(queue))
    /\ lastOp' = [op |-> "play", ok |-> TRUE]
    /\ UNCHANGED <<nextQid, schedule, nextSid, calls>>
    /\ NotConc

QueueNext ==
    \/ \E c \in Callers \ {0}, f \in AllFiles, isAd \in BOOLEAN : CAddRead(c, f, isAd)
    \/ \E c \in Callers \ {0}, f \in AllFiles : CInjectShift(c, f)
    \/ CAutoFillRead
    \/ \E c \in Callers : CInsert(c)
    \/ CPlayNext

QueueSpec == QueueInit /\ [][QueueNext]_vars

\* C9 (position math under concurrency): no two pending queue rows have the
\* same position, however enqueue, ad-injection and auto-fill calls interleave.
C9_DistinctPendingPositions ==
    \A x, y \in Pending(queue) : x.pos = y.pos => x.id = y.id

\* --------------- the catalog's delete against the commands that add rows
\* handleFileDelete, AddToQueue, InjectAd, AddToSchedule and
\* autoFillQueueFromLibrary statement by statement.  video_queue.file_id and
\* schedule.file_id are FOREIGN KEY ... REFERENCES availible_files(file_id)
\* ON DELETE CASCADE, and the connection is opened with _foreign_keys=on.
\* caller 0 is the consumer loop (auto-fill); one handler adds rows while another
\* deletes catalog entries
Adder == MaxCallers - 1
Deleter == MaxCallers

RIdle == [op |-> "idle", file |-> None, pos |-> 0, ad |-> FALSE, todo |-> {}, listed |-> {}, n |-> 0]

RCall(op, f, pos, ad) == [RIdle EXCEPT !.op = op, !.file = f, !.pos = pos, !.ad = ad]

\* os.Stat, then the lookup in availible_files
CheckError(f) ==
    IF f \notin disk THEN "FileMissing"
    ELSE IF f \notin catalog THEN "NotCataloged"
    ELSE "none"

OnNotCatalogedShift(Q) == ShiftPending(Q)

\* if !has { return fmt.Errorf(...) }: the rows a rejected call leaves behind
OnNotCataloged(Q) == Q

\* an INSERT is refused when its file_id has no row in availible_files
ForeignKeyHolds(cat, f) == f \in cat

CascadeNone(R, f) == R

\* ON DELETE CASCADE: the rows of the deleted file go with it
CascadeRows(R, f) == {x \in R : x.file # f}

\* DELETE FROM video_queue / schedule WHERE file_id = ...
DeleteRowsOf(R, f) == {x \in R : x.file # f}

InProgress(ops) == Cardinality({c \in Callers : calls[c].op \in ops})

\* a call that passes its checks is begun only if the rows it and the calls in
\* progress insert fit the bounds
RoomQ == nextQid + InProgress({"enqueue", "inject", "list", "populate", "fillstat", "autofill"})
            <= MaxRefQueue

RoomS(k) == nextSid + InProgress({"add"}) + Cardinality(calls[0].todo) + k <= MaxSched + 1

RefInit ==
    /\ catalog = Files
    /\ disk = AllFiles
    /\ schedule = {}
    /\ nextSid = 1
    /\ queue = {}
    /\ nextQid = 1
    /\ history = <<>>
    /\ calls = [c \in Callers |-> RIdle]
    /\ PlayerInit
    /\ lastOp = [op |-> "init", ok |-> TRUE, err |-> "none", known |-> TRUE, unchanged |-> TRUE]
    /\ nextLog = <<>>
    /\ logFromStart = TRUE

NotRef == UNCHANGED <<history, nextLog, logFromStart, playerVars>>

\* a call returned: what it answered, whether its file had a catalog row when it
\* was checked, and whether the returning statement left the three tables alone
RReturned(op, e, known) ==
    lastOp' = [op |-> op, ok |-> (e = "none"), err |-> e, known |-> known,
               unchanged |-> (queue' = queue /\ schedule' = schedule /\ history' = history)]

\* AddToQueue up to the position it computed: the checks, then SELECT MAX
RAddCheck(c, f, isAd) ==
    /\ calls[c].op = "idle"
    /\ UNCHANGED <<catalog, disk, schedule, nextSid, nextQid>>
    /\ NotRef
    /\ IF CheckError(f) = "none"
       THEN /\ RoomQ
            /\ calls' = [calls EXCEPT ![c] = RCall("enqueue", f, MaxQueuePos(queue) + 1, isAd)]
            /\ UNCHANGED <<queue, lastOp>>
       ELSE /\ queue' = OnNotCataloged(queue)
            /\ UNCHANGED calls
            /\ RReturned("enqueue", CheckError(f), f \in catalog)

\* InjectAd up to its insert: the checks, then the shifting UPDATE
RInjectShift(c, f) ==
    /\ calls[c].op = "idle"
    /\ UNCHANGED <<catalog, disk, schedule, nextSid, nextQid>>
    /\ NotRef
    /\ IF CheckError(f) = "none"
       THEN /\ RoomQ
            /\ queue' = ShiftPending(queue)
            /\ calls' = [calls EXCEPT ![c] = RCall("inject", f, 0, TRUE)]
            /\ UNCHANGED lastOp
       ELSE /\ queue' = OnNotCataloged(queue)
            /\ UNCHANGED calls
            /\ RReturned("inject", CheckError(f), f \in catalog)

\* AddToSchedule up to the position it computed: the checks, then SELECT MAX
RSchedCheck(c, f) ==
    /\ calls[c].op = "idle"
    /\ UNCHANGED <<catalog, disk, queue, nextQid, schedule, nextSid>>
    /\ NotRef
    /\ IF CheckError(f) = "none"
       THEN /\ RoomS(1)
            /\ calls' = [calls EXCEPT ![c] = RCall("add", f, MaxSchedPos(schedule) + 1, FALSE)]
            /\ UNCHANGED lastOp
       ELSE /\ UNCHANGED calls
            /\ RReturned("add", CheckError(f), f \in catalog)

\* the INSERT INTO video_queue of AddToQueue, InjectAd or autoFillQueueFromLibrary
RInsertQueue(c) ==
    /\ calls[c].op \in {"enqueue", "inject", "autofill"}
    /\ calls' = [calls EXCEPT ![c] = RIdle]
    /\ UNCHANGED <<catalog, disk, schedule, nextSid>>
    /\ NotRef
    /\ IF ForeignKeyHolds(catalog, calls[c].file)
       THEN /\ queue' = InsertQueue(queue, nextQid, calls[c].file, calls[c].pos, calls[c].ad)
            /\ nextQid' = nextQid + 1
            /\ RReturned(calls[c].op, "none", TRUE)
       ELSE /\ UNCHANGED <<queue, nextQid>>
            /\ RReturned(calls[c].op, "database", TRUE)

\* the INSERT INTO schedule of AddToSchedule
RInsertSchedule(c) ==
    /\ calls[c].op = "add"
    /\ calls' = [calls EXCEPT ![c] = RIdle]
    /\ UNCHANGED <<catalog, disk, queue, nextQid>>
    /\ NotRef
    /\ IF ForeignKeyHolds(catalog, calls[c].file)
       THEN /\ schedule' = schedule \cup {[id |-> nextSid, file |-> calls[c].file,
                                           pos |-> calls[c].pos, cur |-> FALSE]}
            /\ nextSid' = nextSid + 1
            /\ RReturned("add", "none", TRUE)
       ELSE /\ UNCHANGED <<schedule, nextSid>>
            /\ RReturned("add", "database", TRUE)

\* the consumer loop found no pending row: autoFillQueueFromLibrary's first
\* GetNextFromSchedule
RFillNext ==
    /\ calls[0].op = "idle"
    /\ NextPending(queue) = None
    /\ RoomQ
    /\ \E r \in NextOutcomes(schedule) :
        /\ schedule' = r.sched
        /\ calls' = [calls EXCEPT ![0] =
                        IF r.item = None THEN RCall("list", None, 0, FALSE)
                        ELSE RCall("fillstat", SchedFile(schedule, r.item), 0, FALSE)]
    /\ UNCHANGED <<catalog, disk, queue, nextQid, nextSid, lastOp>>
    /\ NotRef

\* helpers.GetXORM().Find(&availableFiles)
RFillList ==
    /\ calls[0].op = "list"
    /\ UNCHANGED <<catalog, disk, queue, nextQid, schedule, nextSid>>
    /\ NotRef
    /\ IF catalog = {}
       THEN /\ calls' = [calls EXCEPT ![0] = RIdle]
            /\ RReturned("autofill", "empty", TRUE)
       ELSE /\ RoomS(Cardinality(catalog))
            /\ calls' = [calls EXCEPT ![0] =
                            [RIdle EXCEPT !.op = "populate", !.todo = catalog, !.listed = catalog]]
            /\ UNCHANGED lastOp

\* one turn of the population loop: os.Stat, then INSERT INTO schedule at position i
RFillPopulate ==
    /\ calls[0].op = "populate"
    /\ calls[0].todo # {}
    /\ LET f  == CHOOSE g \in calls[0].todo : \A h \in calls[0].todo : g <= h
           ok == f \in disk /\ ForeignKeyHolds(catalog, f)
       IN  /\ schedule' = IF ok
                          THEN schedule \cup {[id |-> nextSid, file |-> f,
                                               pos |-> CatalogRank(calls[0].listed, f),
                                               cur |-> FALSE]}
                          ELSE schedule
           /\ nextSid' = IF ok THEN nextSid + 1 ELSE nextSid
           /\ calls' = [calls EXCEPT ![0].todo = @ \ {f},
                                     ![0].n = IF ok THEN @ + 1 ELSE @]
    /\ UNCHANGED <<catalog, disk, queue, nextQid, lastOp>>
    /\ NotRef

\* after the loop: successCount == 0, or GetNextFromSchedule again
RFillRetry ==
    /\ calls[0].op = "populate"
    /\ calls[0].todo = {}
    /\ UNCHANGED <<catalog, disk, queue, nextQid, nextSid>>
    /\ NotRef
    /\ IF calls[0].n = 0
       THEN /\ calls' = [calls EXCEPT ![0] = RIdle]
            /\ UNCHANGED schedule
            /\ RReturned("autofill", "populate", TRUE)
       ELSE \E r \in NextOutcomes(schedule) :
            /\ schedule' = r.sched
            /\ IF r.item = None
               THEN /\ calls' = [calls EXCEPT ![0] = RIdle]
                    /\ RReturned("autofill", "populate", TRUE)
               ELSE /\ calls' = [calls EXCEPT ![0] =
                                    RCall("fillstat", SchedFile(schedule, r.item), 0, FALSE)]
                    /\ UNCHANGED lastOp

\* os.Stat(scheduleItem.FilePath), then SELECT MAX(queue_position)
RFillRead ==
    /\ calls[0].op = "fillstat"
    /\ UNCHANGED <<catalog, disk, queue, nextQid, schedule, nextSid>>
    /\ NotRef
    /\ IF calls[0].file \in disk
       THEN /\ calls' = [calls EXCEPT ![0] =
                            RCall("autofill", calls[0].file, MaxQueuePos(queue) + 1, FALSE)]
            /\ UNCHANGED lastOp
       ELSE /\ calls' = [calls EXCEPT ![0] = RIdle]
            /\ RReturned("autofill", "FileMissing", TRUE)

\* the consumer loop takes the next pending row and marks it played
RPlayNext ==
    /\ calls[0].op = "idle"
    /\ NextPending(queue) # None
    /\ queue' = MarkAsPlayed(queue, NextPending(queue))
    /\ UNCHANGED <<catalog, disk, nextQid, schedule, nextSid, calls, lastOp>>
    /\ NotRef

\* handleFileDelete up to the removal of the physical file
RDeleteLookup(c, f) ==
    /\ calls[c].op = "idle"
    /\ UNCHANGED <<catalog, queue, nextQid, schedule, nextSid>>
    /\ NotRef
    /\ IF f \in catalog
       THEN /\ disk' = disk \ {f}
            /\ calls' = [calls EXCEPT ![c] = RCall("delete", f, 0, FALSE)]
            /\ UNCHANGED lastOp
       ELSE /\ UNCHANGED <<disk, calls>>
            /\ RReturned("delete", "NotFound", FALSE)

\* db.Where("file_id = ?", fileID).Delete(&models.AvailableFiles{})
RDeleteCatalog(c) ==
    /\ calls[c].op = "delete"
    /\ catalog' = catalog \ {calls[c].file}
    /\ queue' = CascadeRows(queue, calls[c].file)
    /\ schedule' = CascadeRows(schedule, calls[c].file)
    /\ calls' = [calls EXCEPT ![c].op = "delete_queue"]
    /\ UNCHANGED <<disk, nextQid, nextSid, lastOp>>
    /\ NotRef

\* DELETE FROM video_queue WHERE file_id = ...
RDeleteQueue(c) ==
    /\ calls[c].op = "delete_queue"
    /\ queue' = DeleteRowsOf(queue, calls[c].file)
    /\ calls' = [calls EXCEPT ![c].op = "delete_schedule"]
    /\ UNCHANGED <<catalog, disk, nextQid, schedule, nextSid, lastOp>>
    /\ NotRef

\* DELETE FROM schedule WHERE file_id = ..., and the answer
RDeleteSchedule(c) ==
    /\ calls[c].op = "delete_schedule"
    /\ schedule' = DeleteRowsOf(schedule, calls[c].file)
    /\ calls' = [calls EXCEPT ![c] = RIdle]
    /\ UNCHANGED <<catalog, disk, queue, nextQid, nextSid>>
    /\ NotRef
    /\ RReturned("delete", "none", TRUE)

RefNext ==
    \/ \E f \in AllFiles : RAddCheck(Adder, f, FALSE)
    \/ \E f \in AllFiles : RInjectShift(Adder, f)
    \/ \E f \in AllFiles : RSchedCheck(Adder, f)
    \/ \E c \in {0, Adder} : RInsertQueue(c)
    \/ RInsertSchedule(Adder)
    \/ RFillNext
    \/ RFillList
    \/ RFillPopulate
    \/ RFillRetry
    \/ RFillRead
    \/ RPlayNext
    \/ \E f \in AllFiles : RDeleteLookup(Deleter, f)
    \/ RDeleteCatalog(Deleter)
    \/ RDeleteQueue(Deleter)
    \/ RDeleteSchedule(Deleter)

RefSpec == RefInit /\ [][RefNext]_vars

C17_RowsCataloged ==
    /\ \A x \in queue : x.file \in catalog
    /\ \A x \in schedule : x.file \in catalog

C17_Witness ==
    /\ lastOp.op = "delete" /\ lastOp.ok
    /\ Cardinality(catalog) = 1
    /\ queue # {} /\ schedule # {}
    /\ \E c \in Callers : calls[c].op \in {"enqueue", "inject", "add", "autofill"}
                          /\ calls[c].file \notin catalog

\* ------------------------------------------------------ the player (Spec)
\* history rows: models.PlayHistory, with the count of UPDATEs of the row
\* (not a column)
NewHistory(h, f, qid) ==
    Append(h, [file |-> f, qid |-> qid, finished |-> FALSE, skipped |-> FALSE,
               updates |-> 0])

MarkAsFinishedLost(h, id) == h

MarkAsSkippedLost(h, id) == h

\* history.MarkAsFinished(); UPDATE finished_at, duration_seconds WHERE id
MarkAsFinishedOp(h, id) ==
    [h EXCEPT ![id] = [@ EXCEPT !.finished = TRUE, !.updates = @ + 1]]

\* history.MarkAsSkipped(); UPDATE finished_at, duration_seconds, skip_requested
MarkAsSkippedOp(h, id) ==
    [h EXCEPT ![id] = [@ EXCEPT !.finished = TRUE, !.skipped = TRUE, !.updates = @ + 1]]

FailureKeep(h, cur) == h

\* videoPlayer, playVideo returned an error: if p.currentHistory != nil, finalize it
FailureFinalize(h, cur) == IF cur # None THEN MarkAsSkippedOp(h, cur) ELSE h

ForceNothing(Q, qid) == Q

\* videoPlayer, playVideo returned an error: video.MarkAsPlayed() and its UPDATE
ForcePlayed(Q, qid) == MarkAsPlayed(Q, qid)

KeepCurrent(cur) == cur

\* playVideo, skip branch: p.currentFile = nil; p.currentHistory = nil
ClearCurrent(cur) == None

AfterSkipExited == "exited"

\* playVideo, skip branch: return fmt.Errorf("video skipped by user"); videoPlayer
\* goes on with its failure path
AfterSkip == "fail"

FileOf(Q, qid) == (CHOOSE x \in Q : x.id = qid).file
IsPlayed(Q, qid) == \E x \in Q : x.id = qid /\ x.played

PipeNeverBroken == FALSE

\* a write to the pipe the feeder holds fails: closed, or its reader is gone
PipeBroken == stale \/ ~stdinOpen

Feeding == feederPc \in {"loop", "write", "flush"}
InFlight == pc \in {"send", "wait", "fail"}

Init ==
    /\ catalog = Files
    /\ disk = AllFiles
    /\ schedule = {}
    /\ nextSid = 1
    /\ QInit
    /\ PlayerInit
    /\ lastOp = [op |-> "init", ok |-> TRUE]
    /\ nextLog = <<>>
    /\ logFromStart = TRUE

NotStore == UNCHANGED <<catalog, disk, schedule, nextSid, queue, nextQid, history>>
NotGhost == UNCHANGED <<lastOp, nextLog, logFromStart, calls, tasks, hub>>
NotPlayerLoop == UNCHANGED <<currentFile, currentHistory, pc, video, err>>
NotFeeder == UNCHANGED <<feederPc, feeding, chunksLeft, ctxDone, stale>>
NotProcess == UNCHANGED <<running, ffmpegRunning, stdinOpen, stopClosed, panicked, procAlive>>

\* Start, the subprocess starts: running, new pipe, the two goroutines
Start ==
    /\ ~panicked /\ ~running
    /\ running' = TRUE
    /\ ffmpegRunning' = TRUE
    /\ stdinOpen' = TRUE
    /\ procAlive' = TRUE
    /\ stalled' = FALSE
    /\ stale' = Feeding
    /\ pc' = IF pc \in {"off", "exited"} THEN "loop" ELSE pc
    /\ feederPc' = IF feederPc \in {"off", "exited"} THEN "idle" ELSE feederPc
    /\ UNCHANGED <<stopClosed, panicked, currentFile, currentHistory, video, err, feedChan,
                   feeding, chunksLeft, ctxDone, done, skipPc>>
    /\ NotStore /\ NotGhost

\* Start, cmd.Start fails: running and ffmpegRunning stay set, no goroutine
StartFails ==
    /\ ~panicked /\ ~running
    /\ running' = TRUE
    /\ ffmpegRunning' = TRUE
    /\ stdinOpen' = FALSE
    /\ procAlive' = FALSE
    /\ stale' = Feeding
    /\ UNCHANGED <<stopClosed, panicked, currentFile, currentHistory, pc, video, err, feedChan,
                   feederPc, feeding, chunksLeft, ctxDone, stalled, done, skipPc>>
    /\ NotStore /\ NotGhost

\* the process dies of a panic: its goroutines, channels and fields go with it,
\* the store stays
Panic ==
    /\ panicked' = TRUE
    /\ running' = FALSE
    /\ ffmpegRunning' = FALSE
    /\ stdinOpen' = FALSE
    /\ procAlive' = FALSE
    /\ currentFile' = None
    /\ currentHistory' = None
    /\ pc' = "exited"
    /\ video' = None
    /\ err' = "none"
    /\ feedChan' = <<>>
    /\ feederPc' = "exited"
    /\ feeding' = None
    /\ chunksLeft' = 0
    /\ ctxDone' = FALSE
    /\ stalled' = FALSE
    /\ stale' = FALSE
    /\ done' = "none"
    /\ skipPc' = "idle"
    /\ UNCHANGED stopClosed

\* Stop: running = false; close(stopChan), a panic if it is closed; stdin.Close()
Stop ==
    /\ ~panicked /\ running
    /\ IF stopClosed
       THEN Panic
       ELSE /\ running' = FALSE
            /\ stopClosed' = TRUE
            /\ stdinOpen' = FALSE
            /\ UNCHANGED <<panicked, ffmpegRunning, procAlive, stalled, feedChan, done, skipPc>>
            /\ NotPlayerLoop /\ NotFeeder
    /\ NotStore /\ NotGhost

\* videoPlayer, top of the loop: select on stopChan with a default
PlayerLoopTop ==
    /\ ~panicked /\ pc = "loop"
    /\ pc' = IF stopClosed THEN "exited" ELSE "get"
    /\ UNCHANGED <<currentFile, currentHistory, video, err, feedChan, stalled, done, skipPc>>
    /\ NotProcess /\ NotFeeder /\ NotStore /\ NotGhost

\* videoPlayer, getNextVideo found nothing: autoFillQueueFromLibrary, then continue
PlayerAutoFill ==
    /\ ~panicked /\ pc = "get"
    /\ NextPending(queue) = None
    /\ nextQid <= MaxPlays
    /\ \E r \in AutoFillOutcomes(schedule, nextSid, catalog, disk) :
        /\ schedule' = r.sched
        /\ nextSid' = r.nextSid
        /\ IF r.file # None
           THEN /\ queue' = AddToQueueOp(queue, nextQid, r.file, FALSE)
                /\ nextQid' = nextQid + 1
           ELSE UNCHANGED <<queue, nextQid>>
    /\ pc' = "loop"
    /\ UNCHANGED <<catalog, disk, history>>
    /\ UNCHANGED <<currentFile, currentHistory, video, err, feedChan, stalled, done, skipPc>>
    /\ NotProcess /\ NotFeeder /\ NotGhost

\* videoPlayer takes the next pending row; playVideo up to the send:
\* the history row, currentFile and currentHistory
PlayerPlay ==
    /\ ~panicked /\ pc = "get"
    /\ NextPending(queue) # None
    /\ Len(history) < MaxPlays
    /\ LET v == NextPending(queue)
       IN  /\ history' = NewHistory(history, FileOf(queue, v), v)
           /\ video' = v
           /\ currentFile' = v
    /\ currentHistory' = Len(history) + 1
    /\ err' = "none"
    /\ pc' = "send"
    /\ UNCHANGED <<catalog, disk, schedule, nextSid, queue, nextQid>>
    /\ UNCHANGED <<feedChan, stalled, done, skipPc>>
    /\ NotProcess /\ NotFeeder /\ NotGhost

\* playVideo: the request goes into videoFeedChan
PlayerSend ==
    /\ ~panicked /\ pc = "send"
    /\ Len(feedChan) < FeedChanCap
    /\ feedChan' = Append(feedChan, video)
    /\ pc' = "wait"
    /\ UNCHANGED <<currentFile, currentHistory, video, err, stalled, done, skipPc>>
    /\ NotProcess /\ NotFeeder /\ NotStore /\ NotGhost

SendBlocks == FALSE

\* playVideo: videoFeedChan stayed full for 5 seconds
PlayerSendTimeout ==
    /\ ~panicked /\ pc = "send"
    /\ Len(feedChan) = FeedChanCap
    /\ err' = "send"
    /\ pc' = "fail"
    /\ UNCHANGED <<currentFile, currentHistory, video, feedChan, stalled, done, skipPc>>
    /\ NotProcess /\ NotFeeder /\ NotStore /\ NotGhost

\* playVideo receives from skipChan (the rendezvous with Skip): the skip branch
PlayerSkipped ==
    /\ ~panicked /\ pc = "wait"
    /\ skipPc = "send"
    /\ skipPc' = "idle"
    /\ history' = MarkAsSkippedOp(history, currentHistory)
    /\ queue' = MarkAsPlayed(queue, video)
    /\ currentFile' = ClearCurrent(currentFile)
    /\ currentHistory' = ClearCurrent(currentHistory)
    /\ err' = "skipped"
    /\ pc' = AfterSkip
    /\ done' = "none"
    /\ UNCHANGED <<catalog, disk, schedule, nextSid, nextQid>>
    /\ UNCHANGED <<video, feedChan, stalled>>
    /\ NotProcess /\ NotFeeder /\ NotGhost

\* playVideo receives the feed's result from feedReq.Done
PlayerDone ==
    /\ ~panicked /\ pc = "wait"
    /\ done # "none"
    /\ done' = "none"
    /\ IF done = "ok"
       THEN /\ history' = MarkAsFinishedOp(history, currentHistory)
            /\ queue' = MarkAsPlayed(queue, video)
            /\ currentFile' = None
            /\ currentHistory' = None
            /\ pc' = "loop"
            /\ UNCHANGED err
       ELSE /\ err' = IF done = "timeout" THEN "timeout" ELSE "feed"
            /\ pc' = "fail"
            /\ UNCHANGED <<history, queue, currentFile, currentHistory>>
    /\ UNCHANGED <<catalog, disk, schedule, nextSid, nextQid>>
    /\ UNCHANGED <<video, feedChan, stalled, skipPc>>
    /\ NotProcess /\ NotFeeder /\ NotGhost

\* videoPlayer, playVideo returned an error: finalize p.currentHistory if set,
\* mark the row played, sleep, next turn of the loop
PlayerFail ==
    /\ ~panicked /\ pc = "fail"
    /\ history' = FailureFinalize(history, currentHistory)
    /\ queue' = ForcePlayed(queue, video)
    /\ pc' = "loop"
    /\ UNCHANGED <<catalog, disk, schedule, nextSid, nextQid>>
    /\ UNCHANGED <<currentFile, currentHistory, video, err, feedChan, stalled, done, skipPc>>
    /\ NotProcess /\ NotFeeder /\ NotGhost

\* a feeder that would start a failed file again instead of reporting the failure
FeedRetries(req, result) ==
    IF result = "ok"
    THEN /\ done' = IF pc = "wait" /\ video = req THEN result ELSE done
         /\ feederPc' = "idle"
         /\ feeding' = None
         /\ chunksLeft' = 0
         /\ ctxDone' = FALSE
         /\ stale' = FALSE
    ELSE /\ feederPc' = "loop"
         /\ feeding' = req
         /\ chunksLeft' = MaxChunks
         /\ UNCHANGED <<done, ctxDone, stale>>

\* the feeder hands the result of feedVideoToFFmpeg to the request's Done channel;
\* the channel of a request playVideo has left is never read again
FeedReturns(req, result) ==
    /\ done' = IF pc = "wait" /\ video = req THEN result ELSE done
    /\ feederPc' = "idle"
    /\ feeding' = None
    /\ chunksLeft' = 0
    /\ ctxDone' = FALSE
    /\ stale' = FALSE

\* videoFeeder, select: stopChan is closed
FeederStop ==
    /\ ~panicked /\ feederPc = "idle"
    /\ stopClosed
    /\ feederPc' = "exited"
    /\ UNCHANGED <<feeding, chunksLeft, ctxDone, stale, feedChan, stalled, done, skipPc>>
    /\ NotProcess /\ NotPlayerLoop /\ NotStore /\ NotGhost

\* videoFeeder, select: a request; feedVideoToFFmpeg up to its writer loop
FeederTake ==
    /\ ~panicked /\ feederPc = "idle"
    /\ feedChan # <<>>
    /\ feedChan' = Tail(feedChan)
    /\ LET req == Head(feedChan)
       IN  IF FileOf(queue, req) \notin disk \/ ~ffmpegRunning
           THEN FeedReturns(req, "err")
           ELSE /\ feeding' = req
                /\ chunksLeft' = MaxChunks
                /\ ctxDone' = FALSE
                /\ stale' = FALSE
                /\ feederPc' = "loop"
                /\ UNCHANGED done
    /\ UNCHANGED <<stalled, skipPc>>
    /\ NotProcess /\ NotPlayerLoop /\ NotStore /\ NotGhost

\* the writer loop, top: ctx.Done, else file.Read, at EOF the final Flush
FeederLoop ==
    /\ ~panicked /\ feederPc = "loop"
    /\ IF ctxDone
       THEN FeedReturns(feeding, "timeout")
       ELSE /\ feederPc' = IF chunksLeft = 0 THEN "flush" ELSE "write"
            /\ UNCHANGED <<feeding, chunksLeft, ctxDone, stale, done>>
    /\ UNCHANGED <<feedChan, stalled, skipPc>>
    /\ NotProcess /\ NotPlayerLoop /\ NotStore /\ NotGhost

\* bufWriter.Write returns: an error from a broken pipe, or the chunk was taken;
\* it does not return while the subprocess reads nothing
FeederWrite ==
    /\ ~panicked /\ feederPc = "write"
    /\ PipeBroken \/ ~stalled
    /\ IF PipeBroken
       THEN FeedReturns(feeding, "err")
       ELSE /\ chunksLeft' = chunksLeft - 1
            /\ feederPc' = "loop"
            /\ UNCHANGED <<feeding, ctxDone, stale, done>>
    /\ UNCHANGED <<feedChan, stalled, skipPc>>
    /\ NotProcess /\ NotPlayerLoop /\ NotStore /\ NotGhost

\* bufWriter.Flush at EOF returns: writeDone <- nil, or the flush error
FeederFlush ==
    /\ ~panicked /\ feederPc = "flush"
    /\ PipeBroken \/ ~stalled
    /\ FeedReturns(feeding, IF PipeBroken THEN "err" ELSE "ok")
    /\ UNCHANGED <<feedChan, stalled, skipPc>>
    /\ NotProcess /\ NotPlayerLoop /\ NotStore /\ NotGhost

\* the 5-minute context of the feed in progress expires
DeadlineExpires ==
    /\ ~panicked /\ Feeding /\ ~ctxDone
    /\ ctxDone' = TRUE
    /\ UNCHANGED <<feederPc, feeding, chunksLeft, stale, feedChan, stalled, done, skipPc>>
    /\ NotProcess /\ NotPlayerLoop /\ NotStore /\ NotGhost

\* Skip: currentFile is read; nil is an error, else the send on skipChan begins
SkipCall ==
    /\ ~panicked /\ skipPc = "idle"
    /\ currentFile # None
    /\ skipPc' = "send"
    /\ UNCHANGED <<feedChan, stalled, done>>
    /\ NotProcess /\ NotPlayerLoop /\ NotFeeder /\ NotStore /\ NotGhost

\* Skip: nobody received from skipChan for 1 second
SkipTimeout ==
    /\ ~panicked /\ skipPc = "send"
    /\ skipPc' = "idle"
    /\ UNCHANGED <<feedChan, stalled, done>>
    /\ NotProcess /\ NotPlayerLoop /\ NotFeeder /\ NotStore /\ NotGhost

\* the subprocess stops reading its stdin during a feed
Stall ==
    /\ ~panicked /\ procAlive /\ ~stalled
    /\ Feeding
    /\ stalled' = TRUE
    /\ UNCHANGED <<feedChan, done, skipPc>>
    /\ NotProcess /\ NotPlayerLoop /\ NotFeeder /\ NotStore /\ NotGhost

\* the subprocess exits; the goroutine waiting on it clears ffmpegRunning
FFmpegExit ==
    /\ ~panicked /\ procAlive
    /\ procAlive' = FALSE
    /\ ffmpegRunning' = FALSE
    /\ stdinOpen' = FALSE
    /\ stalled' = FALSE
    /\ UNCHANGED <<running, stopClosed, panicked, feedChan, done, skipPc>>
    /\ NotPlayerLoop /\ NotFeeder /\ NotStore /\ NotGhost

\* the files that may disappear
Vanishing == 1..MaxVanish

\* a media file disappears from the disk
DiskRemove(f) ==
    /\ ~panicked /\ f \in disk
    /\ disk' = disk \ {f}
    /\ UNCHANGED <<catalog, schedule, nextSid, queue, nextQid, history>>
    /\ UNCHANGED playerVars
    /\ NotGhost

PlayerStep ==
    \/ PlayerLoopTop
    \/ PlayerAutoFill
    \/ PlayerPlay
    \/ PlayerSend
    \/ PlayerSendTimeout
    \/ PlayerDone
    \/ PlayerFail

FeederStep ==
    \/ FeederStop
    \/ FeederTake
    \/ FeederLoop
    \/ FeederWrite
    \/ FeederFlush

Next ==
    \/ Start
    \/ StartFails
    \/ Stop
    \/ PlayerStep
    \/ PlayerSkipped
    \/ FeederStep
    \/ DeadlineExpires
    \/ SkipCall
    \/ SkipTimeout
    \/ Stall
    \/ FFmpegExit
    \/ \E f \in Vanishing : DiskRemove(f)

Spec == Init /\ [][Next]_vars

\* the goroutines keep running and the clock keeps ticking; the callers and
\* the subprocess owe nothing
FairSpec ==
    /\ Spec
    /\ WF_vars(PlayerStep)
    /\ WF_vars(FeederStep)
    /\ WF_vars(DeadlineExpires)

\* ------------------------------------------------------ the player's claims
RecordsOf(qid) == {i \in DOMAIN history : history[i].qid = qid}
Failed == err \in {"feed", "timeout", "send"}
Alive == ~stopClosed /\ ~panicked

\* C1 (anti-livelock): while the consumer loop runs, an item it has taken up
\* eventually has played = true; the loop does not stay on one item for ever.
C1_AntiLivelock ==
    \A q \in 1..MaxPlays :
        [](( InFlight /\ video = q /\ Alive) => <>(IsPlayed(queue, q) \/ ~Alive))

\* C2 (failure path): after a play that ended in an error the loop is back at
\* its top only with the item played and its history row finalized, and no
\* queue row is ever given a second history row.
C2_FailureForcesPlayed ==
    /\ \A i, j \in DOMAIN history : history[i].qid = history[j].qid => i = j
    /\ (Failed /\ pc \in {"loop", "get", "exited"}) =>
            /\ IsPlayed(queue, video)
            /\ \A i \in RecordsOf(video) : history[i].finished

C2_Witness ==
    /\ pc = "get" /\ err = "timeout"
    /\ IsPlayed(queue, video)
    /\ \E i \in RecordsOf(video) : history[i].finished /\ history[i].skipped
    /\ NextPending(queue) \notin {None, video}

C4_SkipFinalizesOnce ==
    /\ err = "skipped" => \E i \in RecordsOf(video) : history[i].skipped
    /\ \A i \in DOMAIN history : history[i].skipped =>
            /\ history[i].finished
            /\ history[i].updates = 1
            /\ IsPlayed(queue, history[i].qid)
            /\ RecordsOf(history[i].qid) = {i}

C4_Witness ==
    /\ err = "skipped" /\ pc = "get"
    /\ feederPc = "idle" /\ feedChan = <<>> /\ ~stopClosed
    /\ \E i \in RecordsOf(video) :
            history[i].skipped /\ history[i].finished /\ history[i].updates = 1
    /\ IsPlayed(queue, video)

\* C5 (history rows): a row is open only while its item is in flight, is
\* written exactly once to finalize it, and never written after that.
C5_FinalizedOnce ==
    \A i \in DOMAIN history :
        /\ history[i].updates <= 1
        /\ history[i].finished <=> history[i].updates = 1
        /\ ~history[i].finished =>
                panicked \/ (InFlight /\ currentHistory = i /\ video = history[i].qid)

C5_Witness ==
    /\ Len(history) = 3
    /\ \E i, j, k \in DOMAIN history :
        /\ history[i].finished /\ ~history[i].skipped
        /\ history[j].finished /\ history[j].skipped
        /\ ~history[k].finished /\ pc = "wait" /\ currentHistory = k
    /\ \A i \in DOMAIN history : history[i].updates <= 1

\* C6 (stalled subprocess): a feed into a subprocess that has stopped reading
\* returns, so the feeder does not stay on that file for ever.
C6_StalledFeedReturns ==
    \A q \in 1..MaxPlays :
        []((feeding = q /\ stalled /\ Alive) => <>(feeding # q \/ ~Alive))

\* C18 (skip with nothing playing): a skip() called while no item is in flight
\* returns NothingPlaying at once: it changes nothing and leaves no skip signal
\* waiting for a later item.
C18_SkipNothingPlaying ==
    [][(skipPc = "idle" /\ ~InFlight) => skipPc' = "idle"]_vars

\* the play step that received from skipChan
TookSkipBranch == pc = "wait" /\ err' = "skipped"

\* the rows a step has written
WrittenHistory == {i \in DOMAIN history' : i \notin DOMAIN history \/ history'[i] # history[i]}
WrittenQueue == {x.id : x \in queue' \ queue}

\* what a step does to Skip: success only in the rendezvous, which skips the play
\* step's own item and nothing else; any other return writes no row
SkipStep ==
    /\ TookSkipBranch =>
            /\ skipPc = "send" /\ skipPc' = "idle"
            /\ WrittenHistory = {currentHistory}
            /\ history'[currentHistory].skipped
            /\ history'[currentHistory].qid = video
            /\ WrittenQueue = {video}
            /\ IsPlayed(queue', video)
    /\ (skipPc = "send" /\ skipPc' = "idle" /\ ~TookSkipBranch) =>
            /\ history' = history
            /\ queue' = queue

\* C19 (skip's outcomes): a skip() that waits can always leave through its
\* one-second timer, so it returns within a bounded window; it returns success
\* only in the rendezvous with one play step, which skips exactly its own item;
\* a skip() that returns an error has skipped no item.
C19_SkipOutcome ==
    /\ [](skipPc = "send" => ENABLED SkipTimeout)
    /\ [][SkipStep]_vars

C19_Witness ==
    /\ err = "skipped" /\ pc = "fail" /\ skipPc = "idle"
    /\ currentFile = None
    /\ Len(history) = 2
    /\ history[1].finished /\ ~history[1].skipped
    /\ history[2].skipped /\ history[2].qid = video
    /\ IsPlayed(queue, video)

\* ------------------------------ Start and Stop, by statement (LifeSpec)
\* the goroutines are counted by where they are: a videoPlayer at the select
\* of its loop or busy with an item, a videoFeeder at its select or busy with
\* a feed; what they play is left out
LifeCallers == 1..MaxCallers

Loops(t) == t.loopSelect + t.loopBusy
Feeders(t) == t.feedSelect + t.feedBusy

\* go p.videoFeeder(); go p.videoPlayer()
Launch(t) ==
    [t EXCEPT !.feedSelect = @ + 1, !.loopSelect = @ + 1, !.launched = @ + 1]

LaunchAnyway(t) == Launch(t)

\* startPersistentFFmpeg failed: Start returns before its go statements
NoLaunch(t) == t

LifeInit ==
    /\ catalog = Files
    /\ disk = AllFiles
    /\ schedule = {}
    /\ nextSid = 1
    /\ queue = {}
    /\ nextQid = 1
    /\ history = <<>>
    /\ calls = [c \in LifeCallers |-> "idle"]
    /\ PlayerInit
    /\ lastOp = [op |-> "init", ok |-> TRUE, err |-> "none", unchanged |-> TRUE,
                 kept |-> TRUE]
    /\ nextLog = <<>>
    /\ logFromStart = TRUE

NotLife ==
    UNCHANGED <<catalog, disk, schedule, nextSid, queue, nextQid, history, nextLog,
                logFromStart, currentFile, currentHistory, pc, video, err, feedChan,
                feederPc, feeding, chunksLeft, ctxDone, stalled, done, skipPc, stale, hub>>

\* a call returned: its answer, whether the returning statement left the
\* player's fields, its goroutines and the store alone (unchanged), and whether
\* it left the goroutines and the store alone (kept)
LifeReturned(op, e) ==
    lastOp' = [op |-> op, ok |-> (e = "none"), err |-> e,
               unchanged |-> /\ tasks' = tasks
                             /\ running' = running
                             /\ ffmpegRunning' = ffmpegRunning
                             /\ stdinOpen' = stdinOpen
                             /\ stopClosed' = stopClosed
                             /\ queue' = queue
                             /\ history' = history,
               kept |-> tasks' = tasks /\ queue' = queue /\ history' = history]

\* the Starts that have passed the running check and not yet returned
Starting == Cardinality({c \in LifeCallers : calls[c] \in {"start_ffmpeg", "start_go"}})

\* Start: under the mutex, running is tested and set
LStartCheck(c) ==
    /\ ~panicked /\ calls[c] = "idle"
    /\ UNCHANGED <<ffmpegRunning, stdinOpen, stopClosed, panicked, procAlive, tasks>>
    /\ NotLife
    /\ IF running
       THEN /\ UNCHANGED <<running, calls>>
            /\ LifeReturned("start", "AlreadyRunning")
       ELSE /\ tasks.launched + Starting < MaxStarts
            /\ running' = TRUE
            /\ calls' = [calls EXCEPT ![c] = "start_ffmpeg"]
            /\ UNCHANGED lastOp

\* Start: startPersistentFFmpeg brings the subprocess up
LStartFFmpeg(c) ==
    /\ ~panicked /\ calls[c] = "start_ffmpeg"
    /\ ffmpegRunning' = TRUE
    /\ stdinOpen' = TRUE
    /\ procAlive' = TRUE
    /\ calls' = [calls EXCEPT ![c] = "start_go"]
    /\ UNCHANGED <<running, stopClosed, panicked, tasks, lastOp>>
    /\ NotLife

\* Start: cmd.Start fails; p.ffmpegRunning and p.running were set before it
\* and stay set, Start returns the error
LStartFFmpegFails(c) ==
    /\ ~panicked /\ calls[c] = "start_ffmpeg"
    /\ ffmpegRunning' = TRUE
    /\ tasks' = NoLaunch(tasks)
    /\ calls' = [calls EXCEPT ![c] = "idle"]
    /\ UNCHANGED <<running, stdinOpen, stopClosed, panicked, procAlive>>
    /\ NotLife
    /\ LifeReturned("start", "SubprocessFailure")

\* Start: the two go statements, return nil
LStartGo(c) ==
    /\ ~panicked /\ calls[c] = "start_go"
    /\ tasks' = Launch(tasks)
    /\ calls' = [calls EXCEPT ![c] = "idle"]
    /\ UNCHANGED <<running, ffmpegRunning, stdinOpen, stopClosed, panicked, procAlive>>
    /\ NotLife
    /\ LifeReturned("start", "none")

\* Stop: under the mutex, running is tested and cleared
LStopCheck(c) ==
    /\ ~panicked /\ calls[c] = "idle"
    /\ UNCHANGED <<ffmpegRunning, stdinOpen, stopClosed, panicked, procAlive, tasks>>
    /\ NotLife
    /\ IF running
       THEN /\ running' = FALSE
            /\ calls' = [calls EXCEPT ![c] = "stop_close"]
            /\ UNCHANGED lastOp
       ELSE /\ UNCHANGED <<running, calls>>
            /\ LifeReturned("stop", "NotRunning")

\* Stop: close(p.stopChan), a panic if it is closed already; stdin.Close()
LStopClose(c) ==
    /\ ~panicked /\ calls[c] = "stop_close"
    /\ IF stopClosed
       THEN /\ Panic
            /\ tasks' = NoTasks
            /\ calls' = [d \in LifeCallers |-> "idle"]
            /\ UNCHANGED <<storeVars, nextLog, logFromStart, hub>>
            /\ LifeReturned("stop", "panic")
       ELSE /\ stopClosed' = TRUE
            /\ stdinOpen' = FALSE
            /\ calls' = [calls EXCEPT ![c] = "idle"]
            /\ UNCHANGED <<running, ffmpegRunning, panicked, procAlive, tasks>>
            /\ NotLife
            /\ LifeReturned("stop", "none")

\* videoPlayer at its select: stopChan is closed and it returns, or the default
\* branch takes up the next item
LLoopSelect ==
    /\ ~panicked /\ tasks.loopSelect > 0
    /\ tasks' = IF stopClosed
                THEN [tasks EXCEPT !.loopSelect = @ - 1]
                ELSE [tasks EXCEPT !.loopSelect = @ - 1, !.loopBusy = @ + 1]
    /\ UNCHANGED <<running, ffmpegRunning, stdinOpen, stopClosed, panicked, procAlive,
                   calls, lastOp>>
    /\ NotLife

\* videoPlayer comes back to the top of its loop
LLoopBack ==
    /\ ~panicked /\ tasks.loopBusy > 0
    /\ tasks' = [tasks EXCEPT !.loopBusy = @ - 1, !.loopSelect = @ + 1]
    /\ UNCHANGED <<running, ffmpegRunning, stdinOpen, stopClosed, panicked, procAlive,
                   calls, lastOp>>
    /\ NotLife

\* videoFeeder at its select: a request is there and it is taken
LFeederTake ==
    /\ ~panicked /\ tasks.feedSelect > 0
    /\ tasks.loopBusy > 0
    /\ tasks' = [tasks EXCEPT !.feedSelect = @ - 1, !.feedBusy = @ + 1]
    /\ UNCHANGED <<running, ffmpegRunning, stdinOpen, stopClosed, panicked, procAlive,
                   calls, lastOp>>
    /\ NotLife

\* videoFeeder at its select: stopChan is closed and it returns
LFeederStop ==
    /\ ~panicked /\ tasks.feedSelect > 0
    /\ stopClosed
    /\ tasks' = [tasks EXCEPT !.feedSelect = @ - 1]
    /\ UNCHANGED <<running, ffmpegRunning, stdinOpen, stopClosed, panicked, procAlive,
                   calls, lastOp>>
    /\ NotLife

\* feedVideoToFFmpeg returns, the feeder is back at its select
LFeederBack ==
    /\ ~panicked /\ tasks.feedBusy > 0
    /\ tasks' = [tasks EXCEPT !.feedBusy = @ - 1, !.feedSelect = @ + 1]
    /\ UNCHANGED <<running, ffmpegRunning, stdinOpen, stopClosed, panicked, procAlive,
                   calls, lastOp>>
    /\ NotLife

LifeNext ==
    \/ \E c \in LifeCallers : LStartCheck(c)
    \/ \E c \in LifeCallers : LStartFFmpeg(c)
    \/ \E c \in LifeCallers : LStartFFmpegFails(c)
    \/ \E c \in LifeCallers : LStartGo(c)
    \/ \E c \in LifeCallers : LStopCheck(c)
    \/ \E c \in LifeCallers : LStopClose(c)
    \/ LLoopSelect
    \/ LLoopBack
    \/ LFeederTake
    \/ LFeederStop
    \/ LFeederBack
    \/ FFmpegExit

LifeSpec == LifeInit /\ [][LifeNext]_vars

\* C21 (one consumer loop, one feeder): a start() on a running player fails
\* with AlreadyRunning and changes nothing, and at no time is there more than
\* one consumer loop or more than one feeder.
C21_SingleLoopAndFeeder ==
    /\ (lastOp.op = "start" /\ lastOp.err = "AlreadyRunning") => lastOp.unchanged
    /\ Loops(tasks) <= 1
    /\ Feeders(tasks) <= 1

\* the same while no Stop has got past its running check
C21_WithoutStop ==
    (~stopClosed /\ \A c \in LifeCallers : calls[c] # "stop_close") =>
        C21_SingleLoopAndFeeder

\* C22 (subprocess cannot be started): a start() whose subprocess does not
\* come up returns the error and launches neither the feeder nor the consumer
\* loop; no queue row is taken or marked played because of it, and while no
\* start() has succeeded there is no goroutine at all.
C22_FailedStartLaunchesNothing ==
    /\ (lastOp.op = "start" /\ lastOp.err = "SubprocessFailure") => (~lastOp.ok /\ lastOp.kept)
    /\ tasks.launched = 0 => (Loops(tasks) = 0 /\ Feeders(tasks) = 0 /\ queue = {})

C22_Witness ==
    /\ lastOp.op = "start" /\ lastOp.err = "SubprocessFailure"
    /\ tasks = NoTasks
    /\ running /\ ffmpegRunning /\ ~procAlive /\ ~stdinOpen

\* ----------------------------------- the player, a few plays (SkipFairSpec)
\* the same player with the consumer loop starting at most MaxSkipPlays items;
\* the feed channel cannot fill up within that many plays
BoundedPlay ==
    /\ Len(history) < MaxSkipPlays
    /\ PlayerPlay

BoundedPlayerStep ==
    \/ PlayerLoopTop
    \/ PlayerAutoFill
    \/ BoundedPlay
    \/ PlayerSend
    \/ PlayerDone
    \/ PlayerFail

SkipNext ==
    \/ Start
    \/ StartFails
    \/ Stop
    \/ BoundedPlayerStep
    \/ PlayerSkipped
    \/ FeederStep
    \/ DeadlineExpires
    \/ SkipCall
    \/ SkipTimeout
    \/ Stall
    \/ FFmpegExit
    \/ \E f \in Vanishing : DiskRemove(f)

\* the goroutines keep running and the clock keeps ticking, as in FairSpec
SkipFairSpec ==
    /\ Init
    /\ [][SkipNext]_vars
    /\ WF_vars(BoundedPlayerStep)
    /\ WF_vars(FeederStep)
    /\ WF_vars(DeadlineExpires)

\* C20 (skip and the consumer loop): a skip ends the play of the current item
\* only; the step that takes it neither stops nor leaves the consumer loop, and
\* after every skip the loop starts a next item (content to schedule exists)
\* unless the player is stopped.
C20_SkipKeepsLoop ==
    /\ [][TookSkipBranch => (pc' # "exited" /\ UNCHANGED <<stopClosed, running>>)]_vars
    /\ []((err = "skipped" /\ Len(history) < MaxSkipPlays) =>
            <>(pc = "send" \/ ~Alive))

C20_Witness ==
    /\ pc = "send" /\ Alive
    /\ Len(history) = 4
    /\ \A i \in 1..3 : history[i].skipped /\ history[i].updates = 1
    /\ ~history[4].finished

\* C23 (stop): after stop() has signalled the consumer loop, the loop eventually
\* terminates, also when an item was in flight at the call.
C23_StopEndsLoop ==
    []((stopClosed /\ Len(history) < MaxSkipPlays) => <>(pc = "exited"))

\* the other half of C23: once stop() has signalled, no new item is started
C23_NoItemAfterStop ==
    [][stopClosed => Len(history') = Len(history)]_vars

\* a step in which the feeder's writer got bytes into the pipe it holds: a chunk
\* taken by bufWriter.Write, or the final Flush reporting success
WroteToSink ==
    \/ feederPc = "write" /\ feederPc' = "loop"
    \/ feederPc = "flush" /\ done # "ok" /\ done' = "ok"

HandOver ==
    (pc = "send" /\ pc' # "send" /\ ~panicked')
        => \/ pc' = "wait" /\ feedChan' = Append(feedChan, video)
           \/ pc' = "fail" /\ err' = "send" /\ feedChan' = feedChan
SendFailureHandled ==
    (pc = "fail" /\ err = "send" /\ pc' # "fail" /\ ~panicked')
        => pc' = "loop" /\ IsPlayed(queue', video)
C25_HandOverBounded ==
    /\ []((pc = "send" /\ ~panicked) => ENABLED (PlayerSend \/ PlayerSendTimeout))
    /\ [][HandOver /\ SendFailureHandled]_vars
C25_Witness ==
    /\ pc = "loop" /\ err = "send"
    /\ Len(feedChan) = FeedChanCap
    /\ IsPlayed(queue, video)
    /\ ~panicked

\* C26 (one attempt, one outcome): the feeder begins a file only by taking a new
\* request from its channel, an attempt that ends leaves the feeder idle with
\* its outcome handed to the waiting play-step, and an outcome is handed over
\* only by the step that ends the attempt for that request and is never
\* replaced by a second one.
TakesRequest ==
    /\ feederPc = "idle" /\ feedChan # <<>>
    /\ feedChan' = Tail(feedChan)
AttemptBegins ==
    (chunksLeft' > chunksLeft \/ (feeding' # None /\ feeding' # feeding))
        => (TakesRequest /\ feeding' = Head(feedChan))
AttemptEnds ==
    (Feeding /\ feederPc' # feederPc /\ feederPc' \notin {"loop", "write", "flush"} /\ ~panicked')
        => /\ feederPc' = "idle" /\ feeding' = None
           /\ (pc = "wait" /\ video = feeding) => done' \in {"ok", "err", "timeout"}
WriteFailureReported ==
    (feederPc \in {"write", "flush"} /\ PipeBroken /\ feederPc' # feederPc /\ ~panicked')
        => feederPc' = "idle"
OutcomeReported ==
    (done' # done /\ done' # "none")
        => /\ done = "none" /\ pc = "wait"
           /\ feederPc' = "idle" /\ feeding' = None
           /\ \/ Feeding /\ feeding = video
              \/ TakesRequest /\ Head(feedChan) = video
C26_AttemptedOnce ==
    [][AttemptBegins /\ AttemptEnds /\ WriteFailureReported /\ OutcomeReported]_vars
C26_Witness ==
    /\ pc = "wait" /\ done = "err"
    /\ feederPc = "idle" /\ feeding = None /\ feedChan = <<>>
    /\ ~stopClosed /\ ~procAlive
    /\ disk = AllFiles
    /\ ~IsPlayed(queue, video)

\* ------------------------------------------------- the event sink (SinkSpec)
\* The hub's broadcast channel carries the now-playing events and, through the
\* hook web.Run adds to the logger, every log line of the process. MaxBroadcast
\* stands for its capacity (make(chan []byte, 256)), MaxDepth for the depth of
\* nested calls at which the goroutine's stack is exhausted.
SinkInit ==
    /\ catalog = Files
    /\ disk = AllFiles
    /\ schedule = {}
    /\ nextSid = 1
    /\ QInit
    /\ PlayerInit
    /\ lastOp = [op |-> "init", ok |-> TRUE]
    /\ nextLog = <<>>
    /\ logFromStart = TRUE

NotSink ==
    UNCHANGED <<catalog, disk, schedule, nextSid, queue, nextQid, history, lastOp,
                nextLog, logFromStart, calls, running, ffmpegRunning, stdinOpen,
                stopClosed, panicked, currentFile, currentHistory, pc, video, err,
                feedChan, feederPc, feeding, chunksLeft, ctxDone, stalled, done, skipPc,
                procAlive, stale, tasks>>

Full(h) == h.broadcast = MaxBroadcast
Dead(h) == h.notify \in {"overflow", "killed"}

\* the stack of a goroutine is exhausted: the runtime ends the process, and the
\* other goroutine with it
StackOverflow(h, inNotify) ==
    IF inNotify
    THEN [h EXCEPT !.notify = "overflow", !.run = "killed"]
    ELSE [h EXCEPT !.notify = "killed", !.run = "overflow"]

DefaultReturns(h) == [h EXCEPT !.notify = "idle", !.depth = 0, !.notified = @ + 1]

\* the default case of the select in the hub's Broadcast functions:
\* h.logger.Warn(...), a log call, which fires the hook once more
DefaultLogs(h) ==
    IF h.depth < MaxDepth
    THEN [h EXCEPT !.notify = "log", !.depth = @ + 1]
    ELSE StackOverflow(h, TRUE)

\* web.Run: AddHook(NewWebSocketHook(wsHub)), streamer.SetBroadcaster(wsHub)
SetBroadcaster ==
    /\ ~Dead(hub) /\ ~hub.broadcaster
    /\ hub' = [hub EXCEPT !.broadcaster = TRUE]
    /\ NotSink

\* a log line of another goroutine: Fire, BroadcastStructuredLog, queued
OtherLog ==
    /\ ~Dead(hub) /\ hub.broadcaster
    /\ ~Full(hub)
    /\ hub' = [hub EXCEPT !.broadcast = @ + 1]
    /\ NotSink

\* playVideo calls streamer.BroadcastCurrentlyPlaying: without a broadcaster it
\* returns, else WebSocketHub.BroadcastCurrentlyPlaying is entered
NotifyCall ==
    /\ ~Dead(hub) /\ hub.notify = "idle"
    /\ hub.notified < MaxNotify
    /\ hub' = IF hub.broadcaster
              THEN [hub EXCEPT !.notify = "select"]
              ELSE [hub EXCEPT !.notified = @ + 1]
    /\ NotSink

\* WebSocketHub.BroadcastCurrentlyPlaying, the select: the event is queued and
\* h.logger...Debug is called, or the default case calls h.logger.Warn
NotifySelect ==
    /\ ~Dead(hub) /\ hub.notify = "select"
    /\ hub' = IF Full(hub)
              THEN DefaultLogs(hub)
              ELSE [hub EXCEPT !.broadcast = @ + 1, !.notify = "log", !.depth = 1]
    /\ NotSink

\* the log call of the notifying goroutine: WebSocketHook.Fire,
\* BroadcastStructuredLog; the line is queued and the open calls return, or the
\* default case logs again
NotifyLogFire ==
    /\ ~Dead(hub) /\ hub.notify = "log"
    /\ hub' = IF Full(hub)
              THEN DefaultLogs(hub)
              ELSE DefaultReturns([hub EXCEPT !.broadcast = @ + 1])
    /\ NotSink

\* WebSocketHub.run receives a message from broadcast and offers it to the
\* clients without waiting for any of them
HubReceive ==
    /\ ~Dead(hub) /\ hub.run = "select"
    /\ hub.broadcast > 0
    /\ hub' = [hub EXCEPT !.broadcast = @ - 1]
    /\ NotSink

\* WebSocketHub.run logs (a client connected, disconnected, or its buffer is full)
HubLog ==
    /\ ~Dead(hub) /\ hub.run = "select"
    /\ hub.broadcaster
    /\ hub' = [hub EXCEPT !.run = "log", !.runDepth = 1]
    /\ NotSink

\* the log call of the hub's goroutine: Fire, BroadcastStructuredLog
HubLogFire ==
    /\ ~Dead(hub) /\ hub.run = "log"
    /\ hub' = IF ~Full(hub)
              THEN [hub EXCEPT !.broadcast = @ + 1, !.run = "select", !.runDepth = 0]
              ELSE IF hub.runDepth < MaxDepth
                   THEN [hub EXCEPT !.runDepth = @ + 1]
                   ELSE StackOverflow(hub, FALSE)
    /\ NotSink

NotifyStep ==
    \/ NotifySelect
    \/ NotifyLogFire

SinkNext ==
    \/ SetBroadcaster
    \/ OtherLog
    \/ NotifyCall
    \/ NotifyStep
    \/ HubReceive
    \/ HubLog
    \/ HubLogFire

SinkSpec == SinkInit /\ [][SinkNext]_vars

\* the notifying goroutine keeps running; nothing is owed by the sink
SinkFairSpec ==
    /\ SinkSpec
    /\ WF_vars(NotifyStep)

\* C27 (fire-and-forget): a now-playing notification the consumer loop has
\* begun returns to it, whatever the sink does, unless the process is ended by
\* another goroutine: with no broadcaster set or a full broadcast channel the
\* event is dropped and the loop goes on.
C27_NotifyReturns ==
    (hub.notify \in {"select", "log"}) ~> (hub.notify \in {"idle", "killed"})

\* with no broadcaster set the notification is dropped in the call itself
C27_NoSinkDrops ==
    [][(hub.notify = "idle" /\ ~hub.broadcaster /\ hub' # hub /\ ~hub'.broadcaster)
          => (hub'.notify = "idle" /\ hub'.notified = hub.notified + 1
              /\ hub'.broadcast = hub.broadcast)]_vars

\* the event is never queued on a full channel
C27_FullDrops ==
    [][(hub.notify = "select" /\ Full(hub) /\ hub'.notify # "select")
          => hub'.broadcast = hub.broadcast]_vars

\* C28 (auto-population): when the loop finds nothing pending and next() finds
\* the Schedule empty, the Schedule receives exactly one row for every cataloged
\* file that is on disk and none for any other, the rows stand in catalog
\* order, and the one retry of next() marks the first of them current and hands
\* its file to the Queue.
Survivors == catalog \cap disk
FilesOf(S) == {x.file : x \in S}
InCatalogOrder(S) == \A x, y \in S : (x.file < y.file) => (x.pos < y.pos /\ x.id < y.id)
RetriedOnce(S, Q, Q2) ==
    \E n \in S :
        /\ n.cur /\ \A x \in S : x.cur => x = n
        /\ \A x \in S : n.pos <= x.pos
        /\ \E q \in Q2 \ Q : Q2 = Q \cup {q} /\ q.file = n.file /\ ~q.played
AutoPopulates == pc = "get" /\ pc' = "loop" /\ schedule = {} /\ ~panicked'
AutoPopulated ==
    AutoPopulates
        => /\ FilesOf(schedule') = Survivors
           /\ Cardinality(schedule') = Cardinality(Survivors)
           /\ InCatalogOrder(schedule')
           /\ IF Survivors = {}
              THEN queue' = queue
              ELSE RetriedOnce(schedule', queue, queue')
C28_AutoPopulation ==
    [][AutoPopulated]_vars
C28_Witness ==
    /\ pc = "loop" /\ ~panicked
    /\ catalog \ disk # {}
    /\ schedule # {} /\ FilesOf(schedule) = Survivors
    /\ nextSid = 1 + Cardinality(Survivors)
    /\ Cardinality(queue) = 1 /\ FilesOf(queue) \subseteq Survivors
    /\ history = <<>>

\* C30 (schedule add): add of a cataloged file that already has a row in the
\* Schedule returns success and leaves the Schedule as it is; add of a file
\* without a row appends one row for it at max(position)+1.
AddPresent(f) ==
    (SAddToSchedule(f) /\ Cataloged(f) /\ f \in FilesOf(schedule))
        => (lastOp'.ok /\ schedule' = schedule)
AddAbsent(f) ==
    (SAddToSchedule(f) /\ Cataloged(f) /\ f \notin FilesOf(schedule))
        => /\ lastOp'.ok
           /\ \E n \in schedule' \ schedule :
                /\ schedule' = schedule \cup {n}
                /\ n.file = f /\ ~n.cur
                /\ n.pos = MaxSchedPos(schedule) + 1
C30_ScheduleAdd ==
    [][\A f \in Files : AddPresent(f) /\ AddAbsent(f)]_vars

\* the second half alone
C30_AppendsAtEnd ==
    [][\A f \in Files : AddAbsent(f)]_vars

\* ------------------------------------------------- no content (WaitSpec)
\* The player started on an empty catalog; files are cataloged while it runs
\* and file 1 may disappear from the disk. The loop starts at most
\* MaxSkipPlays items.
WaitInit ==
    /\ catalog = {}
    /\ disk = AllFiles
    /\ schedule = {}
    /\ nextSid = 1
    /\ QInit
    /\ PlayerInit
    /\ lastOp = [op |-> "init", ok |-> TRUE]
    /\ nextLog = <<>>
    /\ logFromStart = TRUE

\* AddToAvailableFiles: a file on disk gets its row in availible_files
CatalogAdd(f) ==
    /\ f \notin catalog /\ f \in disk
    /\ catalog' = catalog \cup {f}
    /\ UNCHANGED <<disk, schedule, nextSid, queue, nextQid, history>>
    /\ UNCHANGED playerVars
    /\ NotGhost

WaitNext ==
    \/ Start
    \/ Stop
    \/ BoundedPlayerStep
    \/ FeederStep
    \/ DeadlineExpires
    \/ FFmpegExit
    \/ \E f \in Vanishing : DiskRemove(f)
    \/ \E f \in Files : CatalogAdd(f)

\* the goroutines keep running and the clock keeps ticking, as in FairSpec
WaitSpec ==
    /\ WaitInit
    /\ [][WaitNext]_vars
    /\ WF_vars(BoundedPlayerStep)
    /\ WF_vars(FeederStep)
    /\ WF_vars(DeadlineExpires)

\* the loop has nothing pending to take up and may start another item
NothingPending ==
    /\ pc \in {"loop", "get"} /\ NextPending(queue) = None
    /\ Len(history) < MaxSkipPlays /\ nextQid <= MaxPlays
\* neither the schedule nor a population of it can yield a file
NoContent ==
    IF schedule = {} THEN Survivors = {} ELSE FilesOf(schedule) \cap disk = {}
\* a cataloged file is on disk and stays there
Playable == \E f \in Survivors : f \notin Vanishing
BacksOff ==
    (pc = "get" /\ NextPending(queue) = None /\ NoContent /\ pc' # "get" /\ ~panicked')
        => /\ pc' = "loop" /\ err' = err
           /\ queue' = queue /\ history' = history
           /\ UNCHANGED <<running, stopClosed>>

\* C29 (no content): with nothing pending and nothing to be had from the
\* Schedule or its population, the loop goes back to its top without a row
\* written and without an error set, it exits only when the player is stopped,
\* and once a playable file is in the Catalog it starts an item, unless the
\* player is stopped.
C29_NoContentWait ==
    /\ [][BacksOff]_vars
    /\ [](pc = "exited" => ~Alive)
    /\ []((NothingPending /\ Playable /\ Alive) => <>(pc = "send" \/ ~Alive))

\* the same without the last part
C29_BacksOffOnly ==
    /\ [][BacksOff]_vars
    /\ [](pc = "exited" => ~Alive)

\* the last part for an empty Schedule
C29_EmptyScheduleResumes ==
    []((NothingPending /\ Playable /\ Alive /\ schedule = {}) => <>(pc = "send" \/ ~Alive))

\* C31 (clear-played): clear_played() removes exactly the rows with played = true
\* and returns their number, leaves every pending row as it was, and a second
\* call right after it finds nothing to remove and returns 0.
ClearedExactly ==
    QClearPlayed
        => /\ queue' = {x \in queue : ~x.played}
           /\ Pending(queue') = Pending(queue)
           /\ PendingOrder(queue') = PendingOrder(queue)
           /\ ClearPlayedCount(queue) = Cardinality(queue) - Cardinality(queue')
           /\ ClearPlayedCount(queue') = 0
           /\ ClearPlayedOp(queue') = queue'
C31_ClearPlayed ==
    [][ClearedExactly]_vars
C31_Witness ==
    /\ lastOp.op = "clear_played"
    /\ Pending(queue) = queue /\ Cardinality(queue) = 2
    /\ nextQid = 5

\* ------------------------------------------------- one file (SoloSpec)
\* The catalog holds one file, the Schedule and the Queue are empty; the player
\* is started (and may be stopped, and its subprocess may exit). The loop
\* starts at most MaxSkipPlays items.
SoloFile == MaxFiles

SoloInit ==
    /\ catalog = {SoloFile}
    /\ disk = AllFiles
    /\ schedule = {}
    /\ nextSid = 1
    /\ QInit
    /\ PlayerInit
    /\ lastOp = [op |-> "init", ok |-> TRUE]
    /\ nextLog = <<>>
    /\ logFromStart = TRUE

SoloNext ==
    \/ Start
    \/ Stop
    \/ BoundedPlayerStep
    \/ FeederStep
    \/ DeadlineExpires
    \/ FFmpegExit

\* the goroutines keep running and the clock keeps ticking, as in FairSpec
SoloSpec ==
    /\ SoloInit
    /\ [][SoloNext]_vars
    /\ WF_vars(BoundedPlayerStep)
    /\ WF_vars(FeederStep)
    /\ WF_vars(DeadlineExpires)

\* the first auto-fill: one Schedule row for the file, current, and one pending
\* Queue row for it
FirstFill ==
    (pc = "get" /\ pc' = "loop" /\ schedule = {} /\ queue = {} /\ ~panicked')
        => /\ \E n \in schedule' : schedule' = {n} /\ n.file = SoloFile /\ n.cur
           /\ \E q \in queue' : queue' = {q} /\ q.file = SoloFile /\ ~q.played
           /\ history' = history
\* the step that takes an item up writes one History record for the file
OneRecord ==
    (pc = "get" /\ pc' = "send")
        => /\ Len(history') = Len(history) + 1
           /\ history'[Len(history')].file = SoloFile
           /\ history'[Len(history')].qid = Len(history')
           /\ \A i \in DOMAIN history : history'[i] = history[i]
\* the feed's Success marks the item played and closes its record
SuccessPlayed ==
    (pc = "wait" /\ done = "ok" /\ pc' # "wait" /\ ~panicked')
        => /\ IsPlayed(queue', video)
           /\ history'[currentHistory].finished /\ ~history'[currentHistory].skipped
           /\ pc' = "loop"
\* the loop is past its first play, which was a success
FirstSucceeded ==
    /\ Len(history) = 1 /\ history[1].finished /\ ~history[1].skipped
    /\ Alive

\* C32 (end to end): started on a catalog of one file with an empty Schedule
\* and Queue, the loop puts the file into the Schedule and from there into the
\* Queue and writes one History record for it; the feed's Success marks that
\* queue item played, and the loop then draws the same file again through the
\* Schedule's wrap-around, as a new queue item with a second History record
\* (unless the player is stopped).
C32_EndToEnd ==
    /\ [][FirstFill /\ OneRecord /\ SuccessPlayed]_vars
    /\ []((pc = "loop" /\ history = <<>> /\ Alive) => <>(Len(history) = 1 \/ ~Alive))
    /\ [](FirstSucceeded => <>(Len(history) = 2 \/ ~Alive))
C32_Witness ==
    /\ Len(history) = 2 /\ Alive
    /\ history[1].finished /\ ~history[1].skipped
    /\ history[2].file = SoloFile /\ history[2].qid = 2
    /\ Cardinality(schedule) = 1 /\ Cardinality(queue) = 2
    /\ IsPlayed(queue, 1) /\ ~IsPlayed(queue, 2)

\* C33 (restart): a player that was stopped and is started again runs with
\* its stop signal clear, so the new loop and feeder do not leave on the
\* earlier stop, and no stop() closes a stop channel that is closed already.
C33_Restartable ==
    /\ running => ~stopClosed
    /\ ~panicked

\* the first half alone
C33_SignalClearWhileRunning ==
    running => ~stopClosed

\* the second half alone
C33_NoDoubleClose ==
    ~panicked

\* C34 (what is streamed): every chunk and every final flush the feeder gets
\* into the pipe belongs to the item the consumer loop has in flight and
\* records as playing.
FeederWrote ==
    /\ feederPc \in {"write", "flush"} /\ ~PipeBroken
    /\ feederPc' # feederPc /\ ~panicked'
C34_StreamsCurrentItem ==
    [][FeederWrote => (pc = "wait" /\ video = feeding /\ currentFile = feeding)]_vars

\* the second half alone: nothing is streamed for one item while another one
\* is recorded as playing
C34_NotWhileAnotherPlays ==
    [][FeederWrote => (currentFile = None \/ currentFile = feeding)]_vars

\* C35 (currently-playing pointer): currentFile and currentHistory, which
\* status() reports and skip() tests, are set to the item while it is in
\* flight and are clear whenever the loop is between items or not running.
BetweenItems == pc \in {"off", "loop", "get", "exited"}
C35_PointerWhileInFlight ==
    /\ pc \in {"send", "wait"} => (currentFile = video /\ currentHistory # None)
    /\ BetweenItems => (currentFile = None /\ currentHistory = None)

\* the first half alone
C35_SetWhileInFlight ==
    pc \in {"send", "wait"} => (currentFile = video /\ currentHistory # None)

\* ------------------------------------- the target of a skip (TargetSpec)
\* the player of SkipFairSpec's size, with the item Skip saw as current
\* recorded in lastOp
\* Skip: currentFile is read; nil is an error, else the send on skipChan begins
TSkipCall ==
    /\ ~panicked /\ skipPc = "idle"
    /\ currentFile # None
    /\ skipPc' = "send"
    /\ lastOp' = [op |-> "skip", ok |-> TRUE, target |-> currentFile]
    /\ UNCHANGED <<feedChan, stalled, done>>
    /\ UNCHANGED <<nextLog, logFromStart, calls, tasks, hub>>
    /\ NotProcess /\ NotPlayerLoop /\ NotFeeder /\ NotStore

TargetNext ==
    \/ Start
    \/ Stop
    \/ BoundedPlayerStep
    \/ PlayerSkipped
    \/ FeederStep
    \/ DeadlineExpires
    \/ TSkipCall
    \/ SkipTimeout
    \/ FFmpegExit

TargetSpec == Init /\ [][TargetNext]_vars

\* C36 (target of a skip): the play step that takes a skip signal is the play
\* of the item that was current when that skip() was called; the signal is
\* never taken by an item that began after the call.
C36_SkipsItemInFlight ==
    [][TookSkipBranch => (video = lastOp.target /\ currentFile = lastOp.target)]_vars

\* the same restricted to signals whose target's queue row is not yet marked
\* played when the signal is taken
C36_FromInFlightCalls ==
    [][(TookSkipBranch /\ ~IsPlayed(queue, lastOp.target)) => video = lastOp.target]_vars

\* C37 (per-file deadline): the feed returns its timeout outcome only when the
\* subprocess has consumed nothing of the file or has stopped reading; a feed
\* that has written part of the file into a subprocess that is still reading
\* is not cut off by the deadline.
TimedOut == feederPc = "loop" /\ ctxDone /\ feederPc' = "idle" /\ ~panicked'
NoProgress == chunksLeft = MaxChunks
C37_TimeoutOnlyWithoutProgress ==
    [][TimedOut => (NoProgress \/ stalled)]_vars

\* the first half alone: a timeout is returned only with nothing consumed
C37_TimeoutOnlyBeforeFirstWrite ==
    [][TimedOut => NoProgress]_vars

\* ------------------------------------- drawing from the schedule (DrawSpec)
\* RefSpec with the consumer loop's getNextVideo and the GetNextFromSchedule of
\* autoFillQueueFromLibrary as the two statements they are
\* getNextVideo finds no pending row: the loop enters autoFillQueueFromLibrary
DGetNextVideo ==
    /\ calls[0].op = "idle"
    /\ NextPending(queue) = None
    /\ RoomQ
    /\ calls' = [calls EXCEPT ![0] = RCall("fill", None, 0, FALSE)]
    /\ UNCHANGED <<catalog, disk, queue, nextQid, schedule, nextSid, lastOp>>
    /\ NotRef

\* autoFillQueueFromLibrary's first GetNextFromSchedule
DFillNext ==
    /\ calls[0].op = "fill"
    /\ \E r \in NextOutcomes(schedule) :
        /\ schedule' = r.sched
        /\ calls' = [calls EXCEPT ![0] =
                        IF r.item = None THEN RCall("list", None, 0, FALSE)
                        ELSE RCall("fillstat", SchedFile(schedule, r.item), 0, FALSE)]
    /\ UNCHANGED <<catalog, disk, queue, nextQid, nextSid, lastOp>>
    /\ NotRef

DrawNext ==
    \/ \E f \in AllFiles : RAddCheck(Adder, f, FALSE)
    \/ \E f \in AllFiles : RInjectShift(Adder, f)
    \/ \E c \in {0, Adder} : RInsertQueue(c)
    \/ DGetNextVideo
    \/ DFillNext
    \/ RFillList
    \/ RFillPopulate
    \/ RFillRetry
    \/ RFillRead
    \/ RPlayNext

DrawSpec == RefInit /\ [][DrawNext]_vars

\* C38 (queue before schedule): GetNextFromSchedule hands out a schedule item,
\* moving the cursor, only while the queue holds no pending row, and the fill
\* it belongs to adds at most one row to the queue; so every enqueued item and
\* injected ad has been played when the next scheduled item is drawn.
Drawn == calls[0].op \in {"fill", "populate"} /\ calls'[0].op = "fillstat"
FillInserts == calls[0].op = "autofill" /\ calls'[0].op = "idle"
C38_DrawsOnlyWhenQueueEmpty ==
    [][/\ Drawn => NextPending(queue) = None
       /\ FillInserts => Cardinality(queue') <= Cardinality(queue) + 1]_vars

\* the second half alone
C38_OneItemPerDraw ==
    [][FillInserts => Cardinality(queue') <= Cardinality(queue) + 1]_vars

\* C39 (full cycle): on a schedule of n >= 1 rows that no other command
\* touches, any n consecutive next() calls return every row exactly once.
WindowIds(i, n) == {nextLog[j] : j \in i..(i + n - 1)}
C39_FullCycle ==
    LET n == Cardinality(schedule)
    IN  (n >= 1 /\ Len(nextLog) >= n) =>
            \A i \in 1..(Len(nextLog) - n + 1) : WindowIds(i, n) = SchedIds(schedule)

\* the same on the schedules whose positions are pairwise distinct
C39_OnDistinctPositions ==
    LET n == Cardinality(schedule)
    IN  (n >= 1 /\ Len(nextLog) >= n /\ DistinctPositions(schedule)) =>
            \A i \in 1..(Len(nextLog) - n + 1) : WindowIds(i, n) = SchedIds(schedule)

====
